---- MODULE Spec2Model ----
(***************************************************************************)
(* A model of the PTY session manager of microterm                         *)
(* (src-tauri/src/pty.rs): the session Registry, the per-session lock,     *)
(* the background reader thread of every session and the five public       *)
(* operations, each cut into steps at the points where it takes a lock,    *)
(* blocks, or publishes something another thread can see.                  *)
(***************************************************************************)
EXTENDS Integers, Sequences, FiniteSets, TLC

\* ------------------------------------------------------------ bounds
\* Sessions a run may provision (successful create_session calls).
MaxSessions == 2
\* Caller threads that may be inside a public operation at the same time.
NumCallers == 2
\* Public operations a run may start.
MaxCalls == 3
\* Bytes a run of the decoder specification reads in all.
MaxStream == 5

\* ------------------------------------------------- program constants
MIN_PTY_COLS == 20
MIN_PTY_ROWS == 5
MAX_PTY_COLS == 500
MAX_PTY_ROWS == 200
\* if incomplete_len <= 4: the longest remainder carried to the next read
MAX_INCOMPLETE_LEN == 4

\* ------------------------------------------------------------ domains
Slots == 1..MaxSessions
Callers == 1..NumCallers
\* Session ids (uuid strings), as numbers; NoSuchId is an id no create_session
\* ever returns ("nonexistent-session-id" of the tests); NoSlot is the None of
\* a Registry lookup.
UuidSpace == 1..MaxSessions
NoSuchId == 0
NoSlot == 0
AllIds == UuidSpace \cup {NoSuchId}
\* (cols, rows) arguments of create_session and of resize_session in the
\* concurrent specification: a valid geometry, cols out of range, rows out of
\* range.
CreateDims == {<<80, 24>>, <<0, 24>>, <<80, 0>>}
ResizeDims == {<<120, 40>>, <<0, 24>>, <<80, 0>>}
\* Bytes the PTY delivers in the decoder specification: 'A', the lead bytes
\* of a 2-byte and of a 4-byte character, and two continuation bytes (0x9F
\* may follow the lead 0xF0, 0x80 may not).
ByteSamples == {65, 195, 240, 159, 128}
\* What one read returns: 1 to MaxStream bytes.
Chunks == UNION {[1..n -> ByteSamples] : n \in 1..MaxStream}
\* 16-bit unsigned arguments around every boundary of validate_pty_size.
U16Samples == {0, 4, 5, 6, 19, 20, 21, 199, 200, 201, 499, 500, 501, 65535}

VARIABLES
    sessions,       \* the Registry: session id -> slot (the Arc<Mutex<PtySession>>)
    regLock,        \* holder of the Registry mutex: 0 (free) or a caller
    nCreated,       \* slots provisioned so far
    sid,            \* slot -> session_id of the session built in it
    shutdown_flag,  \* slot -> PtySession.shutdown_flag
    reader_thread,  \* slot -> PtySession.reader_thread: "none" | "some" | "taken"
    child,          \* slot -> child process: "none" | "running" | "exited"
    geom,           \* slot -> <<cols, rows>> of the PTY
    sessLock,       \* slot -> holder of the session mutex: 0 (free), -1 (the
                    \*         reader) or a caller
    rpc,            \* slot -> position of the reader thread
    exit_code,      \* slot -> the reader's exit_code: "unset" | "None" | "Some0" | "Some1"
    wait_status,    \* slot -> what child.wait() returned to the reader: "none" |
                    \* "WaitFailed" | "ExitedZero" | "ExitedNonZero" | "Signalled"
    call,           \* caller -> the operation it is inside
    nCalls,         \* public operations started so far
    ret,            \* what the step just taken returned to a caller (NoRet: nothing)
    returned,       \* ids returned by a successful create_session
    closed,         \* id -> "no" | "returned": some close_session(id) returned
                    \*       | "joined": one that found the entry returned
    exitCount,      \* id -> pty-exit events emitted (counted up to 2)
    lateOutput,     \* id -> a pty-output was emitted after a pty-exit
    lateEvent,      \* id -> an event was emitted after a close that found id returned
    flaggedOutputs, \* id -> pty-output events emitted since the shutdown flag of
                    \* the session was set (counted up to 2)
    insertClash,    \* a Registry insert replaced an existing entry
    utf8_buffer,    \* the reader's utf8_buffer: bytes held over to the next read
    input,          \* every byte the reader has read so far, in order
    emitted,        \* the data of the pty-output events so far, concatenated
    outputEvents,   \* pty-output events the decoding reader emitted in the step
                    \* just taken
    loopExit,       \* how the decoding reader left its loop: "no" | "eof" | "err"
    process_env,    \* std::env of the process: variable -> <<>> (unset) | <<value>>
    cmd,            \* the CommandBuilder create_session hands to spawn_command:
                    \* <<>> before it is built, <<record>> after
    settings,       \* SettingsManager.settings
    settings_file,  \* the file at SettingsManager.settings_path
    settings_arg,   \* the font_size the SettingsManager operation just taken was
                    \* given: <<>> (none) | <<value>>
    configs,        \* ScreenConfigManager.configs: screen id -> WindowConfig
    config_file,    \* the file at ScreenConfigManager.config_path
    lastSet,        \* screen id -> <<config>> of the latest set_config of the
                    \* screen that no clear followed, <<>> when there is none
    loadedConfigs,  \* screen id -> <<config>> that ScreenConfigManager::new
                    \* loaded for the screen and no set_config or clear has
                    \* touched since, <<>> when there is none
    screenRet       \* what the ScreenConfigManager operation just taken was
                    \* given and returned

vars == <<sessions, regLock, nCreated, sid, shutdown_flag, reader_thread, child,
          geom, sessLock, rpc, exit_code, wait_status, call, nCalls, ret,
          returned, closed,
          exitCount, lateOutput, lateEvent, flaggedOutputs, insertClash,
          utf8_buffer, input,
          emitted, outputEvents, loopExit,
          process_env, cmd, settings, settings_file, settings_arg,
          configs, config_file, lastSet, loadedConfigs, screenRet>>

sessVars == <<nCreated, sid, shutdown_flag, reader_thread, child, geom, sessLock>>
readerVars == <<rpc, exit_code, wait_status>>
eventVars == <<exitCount, lateOutput, lateEvent, flaggedOutputs>>
decVars == <<utf8_buffer, input, emitted, outputEvents, loopExit>>
envVars == <<process_env, cmd>>
settingsVars == <<settings, settings_file, settings_arg>>
screenVars == <<configs, config_file, lastSet, loadedConfigs, screenRet>>
appVars == <<envVars, settingsVars, screenVars>>
ptyVars == <<sessions, regLock, sessVars, readerVars, call, nCalls, ret, returned,
             closed, eventVars, insertClash>>

\* ------------------------------------------------------ pure helpers
Min(S) == CHOOSE x \in S : \A y \in S : x <= y

\* validate_pty_size with a boundary excluded (cols = MAX_PTY_COLS and
\* rows = MAX_PTY_ROWS rejected).
validate_pty_size_exclusive(cols, rows) ==
    IF ~(MIN_PTY_COLS <= cols /\ cols < MAX_PTY_COLS) THEN "InvalidCols"
    ELSE IF ~(MIN_PTY_ROWS <= rows /\ rows < MAX_PTY_ROWS) THEN "InvalidRows"
    ELSE "Ok"

\* A validate_pty_size that checks rows before cols.
validate_pty_size_rows_first(cols, rows) ==
    IF ~(MIN_PTY_ROWS <= rows /\ rows <= MAX_PTY_ROWS) THEN "InvalidRows"
    ELSE IF ~(MIN_PTY_COLS <= cols /\ cols <= MAX_PTY_COLS) THEN "InvalidCols"
    ELSE "Ok"

\* fn validate_pty_size(cols: u16, rows: u16) -> Result<(), String>
validate_pty_size(cols, rows) ==
    IF ~(MIN_PTY_COLS <= cols /\ cols <= MAX_PTY_COLS) THEN "InvalidCols"
    ELSE IF ~(MIN_PTY_ROWS <= rows /\ rows <= MAX_PTY_ROWS) THEN "InvalidRows"
    ELSE "Ok"

\* No error message (the result is not a range error).
NoMessage == [dim |-> "none", value |-> 0, min |-> 0, max |-> 0]

\* format!("Invalid cols: {}. Must be between {} and {}", cols, MIN_PTY_COLS,
\* MAX_PTY_COLS) and its counterpart for rows: the dimension the text names
\* and the three numbers it prints.
InvalidSizeMessage(res, cols, rows) ==
    IF res = "InvalidCols"
    THEN [dim |-> "cols", value |-> cols, min |-> MIN_PTY_COLS, max |-> MAX_PTY_COLS]
    ELSE IF res = "InvalidRows"
    THEN [dim |-> "rows", value |-> rows, min |-> MIN_PTY_ROWS, max |-> MAX_PTY_ROWS]
    ELSE NoMessage

\* HashMap::get(..).cloned()
RegistryGet(reg, id) == IF id \in DOMAIN reg THEN reg[id] ELSE NoSlot

\* A removal that leaves the map as it is.
RegistryRemoveNothing(reg, id) == reg

\* HashMap::remove
RegistryRemove(reg, id) == [x \in DOMAIN reg \ {id} |-> reg[x]]

\* HashMap::insert (replaces the value of a key already present)
RegistryInsert(reg, id, k) ==
    [x \in DOMAIN reg \cup {id} |-> IF x = id THEN k ELSE reg[x]]

\* A uuid generator that only avoids the ids of the sessions now registered.
NewUuidAmongFree(used, reg) == Min(UuidSpace \ DOMAIN reg)

\* uuid::Uuid::new_v4(): an id no earlier call produced. Which unused id it is
\* does not matter to any operation, so the least one stands for all.
NewUuid(used, reg) == Min(UuidSpace \ used)

UsedUuids == {sid[k] : k \in 1..nCreated}

\* ------------------------------------------------------------- calls
Idle == [op |-> "idle", pc |-> "idle", id |-> NoSuchId, k |-> NoSlot,
         cols |-> 0, rows |-> 0, afterExit |-> "no", afterClose |-> FALSE,
         handle |-> FALSE]

NoRet == [op |-> "none", id |-> NoSuchId, k |-> NoSlot, res |-> "none",
          cols |-> 0, rows |-> 0, afterExit |-> "no", afterClose |-> FALSE,
          io |-> FALSE, msg |-> NoMessage]

\* The value a call returns, with what the call was and whether it reached
\* the operating system (openpty and what follows it in create_session,
\* write_all/flush, the resize of the PTY), and the message of a range error.
Returns(c, res, io) == [op |-> c.op, id |-> c.id, k |-> c.k, res |-> res,
                        cols |-> c.cols, rows |-> c.rows,
                        afterExit |-> c.afterExit, afterClose |-> c.afterClose,
                        io |-> io, msg |-> InvalidSizeMessage(res, c.cols, c.rows)]

\* A caller thread enters an operation. Idle callers are interchangeable, so
\* the lowest idle one takes the call.
CanStart(p) == /\ call[p].op = "idle"
               /\ \A q \in Callers : q < p => call[q].op # "idle"
               /\ nCalls < MaxCalls
               /\ nCalls' = nCalls + 1

\* The ids a caller can pass: those create_session has returned, and an id
\* that names no session.
KnownIds == returned \cup {NoSuchId}

\* Whether close_session has set the shutdown flag of a session with this id.
Signalled(id) == \E k \in 1..nCreated : sid[k] = id /\ shutdown_flag[k]

\* A call of op on id with dimensions d as it starts, at pc, holding slot k.
\* afterExit: whether a pty-exit for id was emitted before the call started
\* ("no"), and then whether the session's shutdown flag was set by then
\* ("forced") or not ("natural"); afterClose: a close_session(id) had
\* returned before the call started.
Begin(op, pc, id, k, d) ==
    [op |-> op, pc |-> pc, id |-> id, k |-> k, cols |-> d[1], rows |-> d[2],
     afterExit |-> IF exitCount[id] = 0 THEN "no"
                   ELSE IF Signalled(id) THEN "forced" ELSE "natural",
     afterClose |-> closed[id] # "no",
     handle |-> FALSE]

\* ------------------------------------------- the other managers' state
\* The environment variables create_session reads.
EnvNames == {"SHELL", "HOME", "USER", "LANG", "PATH", "LC_ALL"}

\* fn default_opacity (in hundredths), fn default_font_size
DEFAULT_OPACITY == 90
DEFAULT_FONT_SIZE == 13

\* impl Default for AppSettings (the shortcut strings, which nothing
\* validates, are left out)
AppSettingsDefault ==
    [opacity |-> DEFAULT_OPACITY, font_size |-> DEFAULT_FONT_SIZE,
     shortcut_enabled |-> TRUE, onboarding_complete |-> FALSE, pinned |-> FALSE]

\* fs::read_to_string(path) fails: there is no settings file.
NoFile == [kind |-> "missing", opacity |-> <<>>, font_size |-> <<>>,
           shortcut_enabled |-> <<>>, onboarding_complete |-> <<>>, pinned |-> <<>>]

\* The screens of the model: one named by its dimensions, one by its display.
Screens == {"1920x1080", "display-1"}

\* No ScreenConfigManager operation has returned in the step just taken.
NoScreenRet ==
    [op |-> "none", screen |-> "", arg |-> <<>>, value |-> <<>>, flag |-> FALSE]

\* HashMap::new()
NoConfigs == [sc \in Screens |-> <<>>]

\* fs::read_to_string(path) fails: there is no screen config file.
NoConfigFile == [kind |-> "missing", map |-> NoConfigs]

\* PtyManager::new(): no session; the reader's decoder state before the
\* first read.
InitPty ==
    /\ sessions = <<>>
    /\ regLock = 0
    /\ nCreated = 0
    /\ sid = [k \in Slots |-> NoSuchId]
    /\ shutdown_flag = [k \in Slots |-> FALSE]
    /\ reader_thread = [k \in Slots |-> "none"]
    /\ child = [k \in Slots |-> "none"]
    /\ geom = [k \in Slots |-> <<0, 0>>]
    /\ sessLock = [k \in Slots |-> 0]
    /\ rpc = [k \in Slots |-> "none"]
    /\ exit_code = [k \in Slots |-> "unset"]
    /\ wait_status = [k \in Slots |-> "none"]
    /\ call = [p \in Callers |-> Idle]
    /\ nCalls = 0
    /\ ret = NoRet
    /\ returned = {}
    /\ closed = [i \in AllIds |-> "no"]
    /\ exitCount = [i \in AllIds |-> 0]
    /\ lateOutput = [i \in AllIds |-> FALSE]
    /\ lateEvent = [i \in AllIds |-> FALSE]
    /\ flaggedOutputs = [i \in AllIds |-> 0]
    /\ insertClash = FALSE
    /\ utf8_buffer = <<>>
    /\ input = <<>>
    /\ emitted = <<>>
    /\ outputEvents = 0
    /\ loopExit = "no"

\* The process environment with nothing set, no command built yet.
InitEnv ==
    /\ process_env = [v \in EnvNames |-> <<>>]
    /\ cmd = <<>>

\* SettingsManager::new over a path with no file: AppSettings::default().
InitSettings ==
    /\ settings_file = NoFile
    /\ settings = AppSettingsDefault
    /\ settings_arg = <<>>

\* ScreenConfigManager::new over a path with no file: an empty map.
InitScreens ==
    /\ config_file = NoConfigFile
    /\ configs = NoConfigs
    /\ lastSet = NoConfigs
    /\ loadedConfigs = NoConfigs
    /\ screenRet = NoScreenRet

Init == InitPty /\ InitEnv /\ InitSettings /\ InitScreens

\* ------------------------------------------------------------ events
\* app.emit("pty-output", ..) for session id
EmitOutput(id) ==
    /\ lateOutput' = [lateOutput EXCEPT ![id] = @ \/ exitCount[id] > 0]
    /\ lateEvent' = [lateEvent EXCEPT ![id] = @ \/ closed[id] = "joined"]
    /\ flaggedOutputs' = [flaggedOutputs EXCEPT ![id] =
                             IF Signalled(id) /\ @ < 2 THEN @ + 1 ELSE @]
    /\ UNCHANGED exitCount

\* app.emit("pty-exit", ..) for session id
EmitExit(id) ==
    /\ exitCount' = [exitCount EXCEPT ![id] = IF @ < 2 THEN @ + 1 ELSE @]
    /\ lateEvent' = [lateEvent EXCEPT ![id] = @ \/ closed[id] = "joined"]
    /\ UNCHANGED <<lateOutput, flaggedOutputs>>

\* ------------------------------------------------- the reader thread
\* let exit_code = if !shutdown_flag.load() { lock .. wait } else { None }:
\* the reader's position after the loop. Leaving the loop and loading the flag
\* touch nothing another thread sees in between, so they are one step.
AfterLoop(k) == IF shutdown_flag[k] THEN "emit" ELSE "lock"

\* A reader that goes on to read whatever the shutdown flag says.
ReaderCheckIgnoresFlag(k) ==
    /\ rpc[k] = "check"
    /\ rpc' = [rpc EXCEPT ![k] = "read"]
    /\ ret' = NoRet
    /\ UNCHANGED <<nCalls, sessions, regLock, sessVars, exit_code, wait_status,
                   call, returned, closed, eventVars, insertClash>>
    /\ UNCHANGED <<decVars, appVars>>

\* loop { if shutdown_flag.load() { break; } ..
ReaderCheck(k) ==
    /\ rpc[k] = "check"
    /\ rpc' = [rpc EXCEPT ![k] = IF shutdown_flag[k] THEN AfterLoop(k) ELSE "read"]
    /\ exit_code' = [exit_code EXCEPT ![k] = IF shutdown_flag[k] THEN "None" ELSE @]
    /\ UNCHANGED wait_status
    /\ ret' = NoRet
    /\ UNCHANGED <<nCalls, sessions, regLock, sessVars, call, returned, closed,
                   eventVars, insertClash>>
    /\ UNCHANGED <<decVars, appVars>>

\* reader.read(..) = Ok(n), n > 0: decode, emit pty-output, next iteration
ReaderReadData(k) ==
    /\ rpc[k] = "read"
    /\ EmitOutput(sid[k])
    /\ rpc' = [rpc EXCEPT ![k] = "check"]
    /\ ret' = NoRet
    /\ UNCHANGED <<nCalls, sessions, regLock, sessVars, exit_code, wait_status, call, returned,
                   closed, insertClash>>
    /\ UNCHANGED <<decVars, appVars>>

\* reader.read(..) = Ok(0), EOF: the slave side is closed, the child is gone
\* (killed, or the shell exited on its own: nothing but this read and wait()
\* can tell when, so the exit is taken to happen here); or Err(e), at any
\* time. Both break out of the loop.
ReaderReadEnd(k, how) ==
    /\ rpc[k] = "read"
    /\ child' = [child EXCEPT ![k] = IF how = "eof" THEN "exited" ELSE @]
    /\ rpc' = [rpc EXCEPT ![k] = AfterLoop(k)]
    /\ exit_code' = [exit_code EXCEPT ![k] = IF shutdown_flag[k] THEN "None" ELSE @]
    /\ UNCHANGED wait_status
    /\ ret' = NoRet
    /\ UNCHANGED <<nCalls, sessions, regLock, nCreated, sid, shutdown_flag,
                   reader_thread, geom, sessLock, call, returned, closed, eventVars,
                   insertClash>>
    /\ UNCHANGED <<decVars, appVars>>

\* let mut session_guard = session_arc_for_thread.lock();
ReaderLock(k) ==
    /\ rpc[k] = "lock"
    /\ sessLock[k] = 0
    /\ sessLock' = [sessLock EXCEPT ![k] = -1]
    /\ rpc' = [rpc EXCEPT ![k] = "wait"]
    /\ ret' = NoRet
    /\ UNCHANGED <<nCalls, sessions, regLock, nCreated, sid, shutdown_flag,
                   reader_thread, child, geom, exit_code, wait_status, call, returned, closed,
                   eventVars, insertClash>>
    /\ UNCHANGED <<decVars, appVars>>

\* What child.wait().ok().map(..) can give: Some(0) for a success status,
\* Some(1) for any other, None when wait fails.
\* What child.wait() can return: an error, or the status of a child that
\* exited with code 0, exited with another code, or was ended by a signal.
WaitStatuses == {"WaitFailed", "ExitedZero", "ExitedNonZero", "Signalled"}

\* An exit code that passes a non-zero status on as success.
ExitCodeOfAlwaysZero(status) ==
    IF status = "WaitFailed" THEN "None" ELSE "Some0"

\* .wait().ok().map(|status| if status.success() { 0 } else { 1 })
ExitCodeOf(status) ==
    IF status = "WaitFailed" THEN "None"
    ELSE IF status = "ExitedZero" THEN "Some0" ELSE "Some1"

WaitResults == {ExitCodeOf(w) : w \in WaitStatuses}

\* session_guard.child.wait(): returns once the child has exited (it was
\* killed, or the shell exits on its own, here at the latest); the guard is
\* dropped at the end of the block. While the shell lives the reader stays
\* here, holding the session lock.
ReaderWait(k) ==
    /\ rpc[k] = "wait"
    /\ child' = [child EXCEPT ![k] = "exited"]
    /\ \E w \in WaitStatuses :
          /\ wait_status' = [wait_status EXCEPT ![k] = w]
          /\ exit_code' = [exit_code EXCEPT ![k] = ExitCodeOf(w)]
    /\ sessLock' = [sessLock EXCEPT ![k] = 0]
    /\ rpc' = [rpc EXCEPT ![k] = "emit"]
    /\ ret' = NoRet
    /\ UNCHANGED <<nCalls, sessions, regLock, nCreated, sid, shutdown_flag,
                   reader_thread, geom, call, returned, closed, eventVars,
                   insertClash>>
    /\ UNCHANGED <<decVars, appVars>>

\* A reader that emits pty-exit inside the loop and goes on reading.
ReaderEmitExitAndLoop(k) ==
    /\ rpc[k] = "emit"
    /\ EmitExit(sid[k])
    /\ rpc' = [rpc EXCEPT ![k] = "read"]
    /\ exit_code' = [exit_code EXCEPT ![k] = "unset"]
    /\ wait_status' = [wait_status EXCEPT ![k] = "none"]
    /\ ret' = NoRet
    /\ UNCHANGED <<nCalls, sessions, regLock, sessVars, call, returned,
                   closed, insertClash>>
    /\ UNCHANGED <<decVars, appVars>>

\* app.emit("pty-exit", PtyExit { session_id, exit_code }): exit_code is moved
\* into the event.
ReaderEmitExit(k) ==
    /\ rpc[k] = "emit"
    /\ EmitExit(sid[k])
    /\ rpc' = [rpc EXCEPT ![k] = "remove"]
    /\ exit_code' = [exit_code EXCEPT ![k] = "unset"]
    /\ wait_status' = [wait_status EXCEPT ![k] = "none"]
    /\ ret' = NoRet
    /\ UNCHANGED <<nCalls, sessions, regLock, sessVars, call, returned,
                   closed, insertClash>>
    /\ UNCHANGED <<decVars, appVars>>

\* sessions_clone.lock().remove(&session_id_for_cleanup); the thread ends.
ReaderRemove(k) ==
    /\ rpc[k] = "remove"
    /\ regLock = 0
    /\ sessions' = RegistryRemove(sessions, sid[k])
    /\ rpc' = [rpc EXCEPT ![k] = "done"]
    /\ ret' = NoRet
    /\ UNCHANGED <<nCalls, regLock, sessVars, exit_code, wait_status, call, returned, closed,
                   eventVars, insertClash>>
    /\ UNCHANGED <<decVars, appVars>>

Reader(k) ==
    \/ ReaderCheck(k) \/ ReaderReadData(k)
    \/ \E how \in {"eof", "err"} : ReaderReadEnd(k, how)
    \/ ReaderLock(k) \/ ReaderWait(k) \/ ReaderEmitExit(k) \/ ReaderRemove(k)

\* ---------------------------------------------------- create_session
\* validate_pty_size(cols, rows)? fails: nothing else happens.
CreateInvalid(p, d) ==
    /\ CanStart(p)
    /\ validate_pty_size(d[1], d[2]) # "Ok"
    /\ ret' = Returns(Begin("create", "idle", NoSuchId, NoSlot, d),
                      validate_pty_size(d[1], d[2]), FALSE)
    /\ UNCHANGED <<sessions, regLock, sessVars, readerVars, call, returned,
                   closed, eventVars, insertClash>>
    /\ UNCHANGED <<decVars, appVars>>

\* The errors of create_session after validation: "Failed to open PTY",
\* "Failed to spawn shell", "Failed to take writer", "Failed to clone reader".
CreateErrors == {"OpenPtyError", "SpawnError", "WriterError", "ReaderError"}

\* A create_session with a step that can fail after the reader thread has
\* been started.
CreateFailAfterThread(p, d) ==
    /\ CanStart(p)
    /\ validate_pty_size(d[1], d[2]) = "Ok"
    /\ nCreated < MaxSessions
    /\ LET k == nCreated + 1
           id == Min(UuidSpace \ UsedUuids)
       IN /\ nCreated' = k
          /\ sid' = [sid EXCEPT ![k] = id]
          /\ child' = [child EXCEPT ![k] = "running"]
          /\ geom' = [geom EXCEPT ![k] = d]
          /\ rpc' = [rpc EXCEPT ![k] = "check"]
          /\ ret' = Returns(Begin("create", "idle", id, k, d), "SpawnError", TRUE)
    /\ UNCHANGED <<sessions, regLock, shutdown_flag, reader_thread, sessLock,
                   exit_code, wait_status, call, returned, closed, eventVars, insertClash>>
    /\ UNCHANGED <<decVars, appVars>>

\* openpty, spawn_command, take_writer or try_clone_reader fails: the ? returns
\* the error before any session is built or any thread is spawned. The call
\* has reached the operating system (io).
CreateFail(p, d) ==
    /\ CanStart(p)
    /\ validate_pty_size(d[1], d[2]) = "Ok"
    /\ \E e \in CreateErrors :
          ret' = Returns(Begin("create", "idle", NoSuchId, NoSlot, d), e, TRUE)
    /\ UNCHANGED <<sessions, regLock, sessVars, readerVars, call, returned,
                   closed, eventVars, insertClash>>
    /\ UNCHANGED <<decVars, appVars>>

\* A create_session that starts the reader thread and drops its handle.
CreateSpawnNoStore(p, d) ==
    /\ CanStart(p)
    /\ validate_pty_size(d[1], d[2]) = "Ok"
    /\ nCreated < MaxSessions
    /\ LET k == nCreated + 1
           id == NewUuid(UsedUuids, sessions)
       IN /\ nCreated' = k
          /\ sid' = [sid EXCEPT ![k] = id]
          /\ child' = [child EXCEPT ![k] = "running"]
          /\ geom' = [geom EXCEPT ![k] = d]
          /\ rpc' = [rpc EXCEPT ![k] = "check"]
          /\ call' = [call EXCEPT ![p] = Begin("create", "insert", id, k, d)]
    /\ ret' = NoRet
    /\ UNCHANGED <<sessions, regLock, shutdown_flag, sessLock, reader_thread,
                   exit_code, wait_status, returned, closed, eventVars,
                   insertClash>>
    /\ UNCHANGED <<decVars, appVars>>

\* Everything up to the store of the thread handle: the id is drawn, the PTY
\* opened, the shell spawned, the PtySession built (shutdown_flag: false), the
\* reader thread started, and session_arc.lock().reader_thread =
\* Some(reader_thread). Nothing reads reader_thread before the session is in
\* the Registry, and the reader started here takes its first step after this
\* one, so the store is taken together with the spawn.
CreateSpawn(p, d) ==
    /\ CanStart(p)
    /\ validate_pty_size(d[1], d[2]) = "Ok"
    /\ nCreated < MaxSessions
    /\ LET k == nCreated + 1
           id == NewUuid(UsedUuids, sessions)
       IN /\ nCreated' = k
          /\ sid' = [sid EXCEPT ![k] = id]
          /\ child' = [child EXCEPT ![k] = "running"]
          /\ geom' = [geom EXCEPT ![k] = d]
          /\ rpc' = [rpc EXCEPT ![k] = "check"]
          /\ reader_thread' = [reader_thread EXCEPT ![k] = "some"]
          /\ call' = [call EXCEPT ![p] = Begin("create", "insert", id, k, d)]
    /\ ret' = NoRet
    /\ UNCHANGED <<sessions, regLock, shutdown_flag, sessLock, exit_code, wait_status,
                   returned, closed, eventVars, insertClash>>
    /\ UNCHANGED <<decVars, appVars>>

\* self.sessions.lock().insert(session_id.clone(), session_arc); Ok(session_id)
CreateInsert(p) ==
    /\ call[p].op = "create" /\ call[p].pc = "insert"
    /\ regLock = 0
    /\ insertClash' = (insertClash \/ call[p].id \in DOMAIN sessions)
    /\ sessions' = RegistryInsert(sessions, call[p].id, call[p].k)
    /\ returned' = returned \cup {call[p].id}
    /\ ret' = Returns(call[p], "Ok", TRUE)
    /\ call' = [call EXCEPT ![p] = Idle]
    /\ UNCHANGED <<nCalls, regLock, sessVars, readerVars, closed, eventVars>>
    /\ UNCHANGED <<decVars, appVars>>

\* ------------------------------------ write_to_session, resize_session
\* let session_arc = { let sessions = self.sessions.lock();
\*     sessions.get(session_id).cloned().ok_or_else(|| ..)? };
\* The Registry lock is released at the end of the block; a miss returns the
\* error miss and the call is over.
Lookup(p, op, pc, id, d, miss) ==
    /\ CanStart(p)
    /\ id \in KnownIds
    /\ regLock = 0
    /\ LET k == RegistryGet(sessions, id)
           c == Begin(op, pc, id, k, d)
       IN IF k = NoSlot
          THEN /\ ret' = Returns(c, miss, FALSE)
               /\ UNCHANGED call
          ELSE /\ call' = [call EXCEPT ![p] = c]
               /\ ret' = NoRet
    /\ UNCHANGED <<sessions, regLock, sessVars, readerVars, returned, closed,
                   eventVars, insertClash>>
    /\ UNCHANGED <<decVars, appVars>>

\* A write_to_session that finds its session among all those ever created,
\* in the Registry or not.
WriteLookupCached(p, id) ==
    /\ CanStart(p)
    /\ id \in KnownIds
    /\ regLock = 0
    /\ LET ks == {j \in 1..nCreated : sid[j] = id}
           k == IF ks = {} THEN NoSlot ELSE CHOOSE j \in ks : TRUE
           c == Begin("write", "lock", id, k, <<0, 0>>)
       IN IF k = NoSlot
          THEN /\ ret' = Returns(c, "SessionNotFound", FALSE)
               /\ UNCHANGED call
          ELSE /\ call' = [call EXCEPT ![p] = c]
               /\ ret' = NoRet
    /\ UNCHANGED <<sessions, regLock, sessVars, readerVars, returned, closed,
                   eventVars, insertClash>>
    /\ UNCHANGED <<decVars, appVars>>

\* A write_to_session that takes a missing session for nothing to do.
WriteLookupOkOnMiss(p, id) == Lookup(p, "write", "lock", id, <<0, 0>>, "Ok")

\* write_to_session: the lookup
WriteLookup(p, id) == Lookup(p, "write", "lock", id, <<0, 0>>, "SessionNotFound")

\* let mut session_guard = session_arc.lock();
WriteLock(p) ==
    /\ call[p].op = "write" /\ call[p].pc = "lock"
    /\ sessLock[call[p].k] = 0
    /\ sessLock' = [sessLock EXCEPT ![call[p].k] = p]
    /\ call' = [call EXCEPT ![p].pc = "io"]
    /\ ret' = NoRet
    /\ UNCHANGED <<nCalls, sessions, regLock, nCreated, sid, shutdown_flag,
                   reader_thread, child, geom, readerVars, returned, closed,
                   eventVars, insertClash>>
    /\ UNCHANGED <<decVars, appVars>>

\* A write_to_session that ends the session when the write fails: the entry
\* is removed and the shutdown flag set.
WriteIoClosesOnError(p) ==
    /\ call[p].op = "write" /\ call[p].pc = "io"
    /\ regLock = 0
    /\ \E res \in {"Ok", "IoError"} :
          /\ ret' = Returns(call[p], res, TRUE)
          /\ sessions' = IF res = "Ok" THEN sessions
                         ELSE RegistryRemove(sessions, call[p].id)
          /\ shutdown_flag' = [shutdown_flag EXCEPT ![call[p].k] = @ \/ res # "Ok"]
    /\ sessLock' = [sessLock EXCEPT ![call[p].k] = 0]
    /\ call' = [call EXCEPT ![p] = Idle]
    /\ UNCHANGED <<nCalls, regLock, nCreated, sid, reader_thread, child, geom,
                   readerVars, returned, closed, eventVars, insertClash>>
    /\ UNCHANGED <<decVars, appVars>>

\* writer.write_all(..)?; writer.flush()?; Ok(()): either may fail; the guard
\* is dropped on every path.
WriteIo(p) ==
    /\ call[p].op = "write" /\ call[p].pc = "io"
    /\ \E res \in {"Ok", "IoError"} : ret' = Returns(call[p], res, TRUE)
    /\ sessLock' = [sessLock EXCEPT ![call[p].k] = 0]
    /\ call' = [call EXCEPT ![p] = Idle]
    /\ UNCHANGED <<nCalls, sessions, regLock, nCreated, sid, shutdown_flag, reader_thread,
                   child, geom, readerVars, returned, closed, eventVars,
                   insertClash>>
    /\ UNCHANGED <<decVars, appVars>>

\* ---------------------------------------------------- resize_session
\* validate_pty_size(cols, rows)? fails: returned before any lock is taken.
ResizeInvalid(p, id, d) ==
    /\ CanStart(p)
    /\ id \in KnownIds
    /\ validate_pty_size(d[1], d[2]) # "Ok"
    /\ ret' = Returns(Begin("resize", "idle", id, NoSlot, d),
                      validate_pty_size(d[1], d[2]), FALSE)
    /\ UNCHANGED <<sessions, regLock, sessVars, readerVars, call, returned,
                   closed, eventVars, insertClash>>
    /\ UNCHANGED <<decVars, appVars>>

\* A resize_session that looks the session up without validating first.
ResizeLookupNoValidate(p, id, d) == Lookup(p, "resize", "io", id, d, "SessionNotFound")

\* resize_session with valid dimensions: the lookup
ResizeLookup(p, id, d) ==
    /\ validate_pty_size(d[1], d[2]) = "Ok"
    /\ Lookup(p, "resize", "io", id, d, "SessionNotFound")

\* session_arc.lock(); pair.master.resize(PtySize { rows, cols, .. })?; Ok(())
ResizeIo(p) ==
    /\ call[p].op = "resize" /\ call[p].pc = "io"
    /\ sessLock[call[p].k] = 0
    /\ \E res \in {"Ok", "IoError"} :
          /\ ret' = Returns(call[p], res, TRUE)
          /\ geom' = IF res = "Ok"
                     THEN [geom EXCEPT ![call[p].k] = <<call[p].cols, call[p].rows>>]
                     ELSE geom
    /\ call' = [call EXCEPT ![p] = Idle]
    /\ UNCHANGED <<nCalls, sessions, regLock, nCreated, sid, shutdown_flag, reader_thread,
                   child, sessLock, readerVars, returned, closed, eventVars,
                   insertClash>>
    /\ UNCHANGED <<decVars, appVars>>

\* --------------------------------------------------- get_session_cwd
\* let sessions = self.sessions.lock(); sessions.get(id).ok_or_else(..)?: the
\* Registry guard lives to the end of the function.
CwdLookup(p, id) ==
    /\ CanStart(p)
    /\ id \in KnownIds
    /\ regLock = 0
    /\ LET k == RegistryGet(sessions, id)
           c == Begin("cwd", "sess", id, k, <<0, 0>>)
       IN IF k = NoSlot
          THEN /\ ret' = Returns(c, "SessionNotFound", FALSE)
               /\ UNCHANGED <<call, regLock>>
          ELSE /\ call' = [call EXCEPT ![p] = c]
               /\ regLock' = p
               /\ ret' = NoRet
    /\ UNCHANGED <<sessions, sessVars, readerVars, returned, closed, eventVars,
                   insertClash>>
    /\ UNCHANGED <<decVars, appVars>>

\* A get_session_cwd that returns the failure of the platform query as an
\* error.
CwdQueryErrOnFail(p) ==
    /\ call[p].op = "cwd" /\ call[p].pc = "sess"
    /\ sessLock[call[p].k] = 0
    /\ \E res \in {"Path", "QueryError"} : ret' = Returns(call[p], res, FALSE)
    /\ regLock' = 0
    /\ call' = [call EXCEPT ![p] = Idle]
    /\ UNCHANGED <<nCalls, sessions, sessVars, readerVars, returned, closed, eventVars,
                   insertClash>>
    /\ UNCHANGED <<decVars, appVars>>

\* session.lock(); child_pid; read_link("/proc/<pid>/cwd"): Ok(Some(path)), or
\* Ok(None) when the pid is unknown or the query fails. Both guards are dropped.
CwdQuery(p) ==
    /\ call[p].op = "cwd" /\ call[p].pc = "sess"
    /\ sessLock[call[p].k] = 0
    /\ \E res \in {"Path", "Absent"} : ret' = Returns(call[p], res, FALSE)
    /\ regLock' = 0
    /\ call' = [call EXCEPT ![p] = Idle]
    /\ UNCHANGED <<nCalls, sessions, sessVars, readerVars, returned, closed, eventVars,
                   insertClash>>
    /\ UNCHANGED <<decVars, appVars>>

\* ----------------------------------------------------- close_session
\* A close_session has returned for id; found: it had found the entry.
CloseMark(id, found) ==
    [closed EXCEPT ![id] = IF found \/ @ = "joined" THEN "joined" ELSE "returned"]

\* let session = { self.sessions.lock().remove(session_id) }: reg2 is the
\* Registry it leaves; if let Some(..) = session { .. } else { .. }; Ok(()).
CloseTake(p, id, reg2, miss) ==
    /\ CanStart(p)
    /\ id \in KnownIds
    /\ regLock = 0
    /\ LET k == RegistryGet(sessions, id)
           c == Begin("close", "signal", id, k, <<0, 0>>)
       IN /\ sessions' = reg2
          /\ IF k = NoSlot
             THEN /\ ret' = Returns(c, miss, FALSE)
                  /\ closed' = CloseMark(id, FALSE)
                  /\ UNCHANGED call
             ELSE /\ call' = [call EXCEPT ![p] = c]
                  /\ ret' = NoRet /\ UNCHANGED closed
    /\ UNCHANGED <<regLock, sessVars, readerVars, returned, eventVars, insertClash>>
    /\ UNCHANGED <<decVars, appVars>>

\* A close_session that reads the entry and leaves it in the Registry.
CloseRemoveKeepsEntry(p, id) == CloseTake(p, id, sessions, "Ok")

\* A close_session that reports a missing session as an error.
CloseRemoveStrict(p, id) ==
    CloseTake(p, id, RegistryRemove(sessions, id), "SessionNotFound")

\* close_session: the removal from the Registry
CloseRemove(p, id) == CloseTake(p, id, RegistryRemove(sessions, id), "Ok")

\* A close_session that takes the thread handle and leaves the shutdown flag
\* as it is.
CloseSignalNoFlag(p) ==
    /\ call[p].op = "close" /\ call[p].pc = "signal"
    /\ sessLock[call[p].k] = 0
    /\ reader_thread' = [reader_thread EXCEPT ![call[p].k] =
                            IF @ = "some" THEN "taken" ELSE @]
    /\ call' = [call EXCEPT ![p].pc = "kill",
                            ![p].handle = (reader_thread[call[p].k] = "some")]
    /\ ret' = NoRet
    /\ UNCHANGED <<nCalls, sessions, regLock, nCreated, sid, shutdown_flag, child,
                   geom, sessLock, readerVars, returned, closed, eventVars,
                   insertClash>>
    /\ UNCHANGED <<decVars, appVars>>

\* session_arc.lock(); shutdown_flag.store(true); reader_thread.take()
CloseSignal(p) ==
    /\ call[p].op = "close" /\ call[p].pc = "signal"
    /\ sessLock[call[p].k] = 0
    /\ shutdown_flag' = [shutdown_flag EXCEPT ![call[p].k] = TRUE]
    /\ reader_thread' = [reader_thread EXCEPT ![call[p].k] =
                            IF @ = "some" THEN "taken" ELSE @]
    /\ call' = [call EXCEPT ![p].pc = "kill",
                            ![p].handle = (reader_thread[call[p].k] = "some")]
    /\ ret' = NoRet
    /\ UNCHANGED <<nCalls, sessions, regLock, nCreated, sid, child, geom, sessLock,
                   readerVars, returned, closed, eventVars, insertClash>>
    /\ UNCHANGED <<decVars, appVars>>

\* A close_session whose kill reaches the child of every session.
CloseKillAll(p) ==
    /\ call[p].op = "close" /\ call[p].pc = "kill"
    /\ sessLock[call[p].k] = 0
    /\ child' = [j \in Slots |-> IF child[j] = "running" THEN "exited" ELSE child[j]]
    /\ call' = [call EXCEPT ![p].pc = "join"]
    /\ ret' = NoRet
    /\ UNCHANGED <<nCalls, sessions, regLock, nCreated, sid, shutdown_flag,
                   reader_thread, geom, sessLock, readerVars, returned, closed,
                   eventVars, insertClash>>
    /\ UNCHANGED <<decVars, appVars>>

\* A close_session that keeps the session lock after the kill, through the
\* join.
CloseKillKeepsLock(p) ==
    /\ call[p].op = "close" /\ call[p].pc = "kill"
    /\ sessLock[call[p].k] = 0
    /\ sessLock' = [sessLock EXCEPT ![call[p].k] = p]
    /\ child' = [child EXCEPT ![call[p].k] = IF @ = "running" THEN "exited" ELSE @]
    /\ call' = [call EXCEPT ![p].pc = "join"]
    /\ ret' = NoRet
    /\ UNCHANGED <<nCalls, sessions, regLock, nCreated, sid, shutdown_flag,
                   reader_thread, geom, readerVars, returned, closed,
                   eventVars, insertClash>>
    /\ UNCHANGED <<decVars, appVars>>

\* A close_session that kills the child without taking the session lock.
CloseKillNoLock(p) ==
    /\ call[p].op = "close" /\ call[p].pc = "kill"
    /\ child' = [child EXCEPT ![call[p].k] = IF @ = "running" THEN "exited" ELSE @]
    /\ call' = [call EXCEPT ![p].pc = "join"]
    /\ ret' = NoRet
    /\ UNCHANGED <<nCalls, sessions, regLock, nCreated, sid, shutdown_flag,
                   reader_thread, geom, sessLock, readerVars, returned, closed,
                   eventVars, insertClash>>
    /\ UNCHANGED <<decVars, appVars>>

\* session_arc.lock(); let _ = session_guard.child.kill();
CloseKill(p) ==
    /\ call[p].op = "close" /\ call[p].pc = "kill"
    /\ sessLock[call[p].k] = 0
    /\ child' = [child EXCEPT ![call[p].k] = IF @ = "running" THEN "exited" ELSE @]
    /\ call' = [call EXCEPT ![p].pc = "join"]
    /\ ret' = NoRet
    /\ UNCHANGED <<nCalls, sessions, regLock, nCreated, sid, shutdown_flag,
                   reader_thread, geom, sessLock, readerVars, returned, closed,
                   eventVars, insertClash>>
    /\ UNCHANGED <<decVars, appVars>>

\* A close_session that returns without joining the reader.
CloseJoinNoWait(p) ==
    /\ call[p].op = "close" /\ call[p].pc = "join"
    /\ ret' = Returns(call[p], "Ok", FALSE)
    /\ closed' = CloseMark(call[p].id, TRUE)
    /\ call' = [call EXCEPT ![p] = Idle]
    /\ UNCHANGED <<nCalls, sessions, regLock, sessVars, readerVars, returned,
                   eventVars, insertClash>>
    /\ UNCHANGED <<decVars, appVars>>

\* if let Some(handle) = reader_thread { handle.join() }; Ok(())
CloseJoin(p) ==
    /\ call[p].op = "close" /\ call[p].pc = "join"
    /\ call[p].handle => rpc[call[p].k] = "done"
    /\ ret' = Returns(call[p], "Ok", FALSE)
    /\ closed' = CloseMark(call[p].id, TRUE)
    /\ call' = [call EXCEPT ![p] = Idle]
    /\ UNCHANGED <<nCalls, sessions, regLock, sessVars, readerVars, returned, eventVars,
                   insertClash>>
    /\ UNCHANGED <<decVars, appVars>>

\* ------------------------------------------------- the specification
\* The steps of a caller thread: the public operations of PtyManager.
Caller(p) ==
    \/ \E d \in CreateDims : CreateInvalid(p, d) \/ CreateFail(p, d) \/ CreateSpawn(p, d)
    \/ CreateInsert(p)
    \/ \E id \in AllIds : WriteLookup(p, id) \/ CwdLookup(p, id) \/ CloseRemove(p, id)
    \/ \E id \in AllIds, d \in ResizeDims : ResizeInvalid(p, id, d) \/ ResizeLookup(p, id, d)
    \/ WriteLock(p) \/ WriteIo(p) \/ ResizeIo(p) \/ CwdQuery(p)
    \/ CloseSignal(p) \/ CloseKill(p) \/ CloseJoin(p)

Next ==
    \/ \E k \in Slots : Reader(k)
    \/ \E p \in Callers : Caller(p)

Spec == Init /\ [][Next]_vars

\* validate_pty_size on 16-bit arguments around its boundaries, as
\* create_session and resize_session apply it on a manager without sessions.
NextValidate ==
    \E p \in Callers, d \in U16Samples \X U16Samples :
       \/ CreateInvalid(p, d) \/ CreateFail(p, d)
       \/ ResizeInvalid(p, NoSuchId, d) \/ ResizeLookup(p, NoSuchId, d)

SpecValidate == Init /\ [][NextValidate]_vars

\* The reader of a session whose reads never fail: its loop ends on EOF (the
\* shell exited) or on the shutdown flag.
ReaderEof(k) ==
    \/ ReaderCheck(k) \/ ReaderReadData(k) \/ ReaderReadEnd(k, "eof")
    \/ ReaderLock(k) \/ ReaderWait(k) \/ ReaderEmitExit(k) \/ ReaderRemove(k)

NextEof ==
    \/ \E k \in Slots : ReaderEof(k)
    \/ \E p \in Callers : Caller(p)

SpecEof == Init /\ [][NextEof]_vars

\* What the scheduler and the operating system guarantee. A thread that can
\* take its next step takes it: a lock that is free is acquired, an I/O call
\* of a caller returns, a finished thread is joined. A read returns once the
\* child is dead (killed or gone), and so does child.wait(); while the shell
\* lives neither has to return, and no data has to arrive.
Fairness ==
    /\ \A k \in Slots :
          /\ WF_vars(ReaderCheck(k))
          /\ WF_vars(child[k] = "exited" /\ ReaderReadEnd(k, "eof"))
          /\ WF_vars(ReaderLock(k))
          /\ WF_vars(child[k] = "exited" /\ ReaderWait(k))
          /\ WF_vars(ReaderEmitExit(k))
          /\ WF_vars(ReaderRemove(k))
    /\ \A p \in Callers :
          /\ WF_vars(CreateInsert(p))
          /\ WF_vars(WriteLock(p)) /\ WF_vars(WriteIo(p))
          /\ WF_vars(ResizeIo(p)) /\ WF_vars(CwdQuery(p))
          /\ WF_vars(CloseSignal(p)) /\ WF_vars(CloseKill(p))
          /\ WF_vars(CloseJoin(p))

SpecLive == Init /\ [][Next]_vars /\ Fairness

\* ------------------------------------------------- the UTF-8 decoder
\* std::str::from_utf8, byte classes: a continuation byte; the length of the
\* character a lead byte opens (0: not a lead byte); the second byte a lead
\* byte admits (no overlong forms, no surrogates, nothing above U+10FFFF).
IsCont(b) == 128 <= b /\ b <= 191

Utf8Width(b) ==
    IF b < 128 THEN 1
    ELSE IF 194 <= b /\ b <= 223 THEN 2
    ELSE IF 224 <= b /\ b <= 239 THEN 3
    ELSE IF 240 <= b /\ b <= 244 THEN 4
    ELSE 0

SecondOk(lead, b) ==
    CASE lead = 224 -> 160 <= b /\ b <= 191
      [] lead = 237 -> 128 <= b /\ b <= 159
      [] lead = 240 -> 144 <= b /\ b <= 191
      [] lead = 244 -> 128 <= b /\ b <= 143
      [] OTHER -> IsCont(b)

\* The length of the complete, well-formed character at s[i], or 0.
CharAt(s, i) ==
    LET w == Utf8Width(s[i])
    IN IF w = 0 \/ i + w - 1 > Len(s) THEN 0
       ELSE IF w = 1 THEN 1
       ELSE IF SecondOk(s[i], s[i + 1]) /\ \A j \in (i + 2)..(i + w - 1) : IsCont(s[j])
            THEN w ELSE 0

RECURSIVE ValidFrom(_, _)
ValidFrom(s, i) ==
    IF i > Len(s) THEN Len(s)
    ELSE IF CharAt(s, i) = 0 THEN i - 1
    ELSE ValidFrom(s, i + CharAt(s, i))

\* std::str::from_utf8(&full_buffer): e.valid_up_to() of its error, and the
\* whole length when it is Ok.
valid_up_to(s) == ValidFrom(s, 1)

\* The code point of the character of length w at s[i].
CodePoint(s, i, w) ==
    CASE w = 1 -> s[i]
      [] w = 2 -> (s[i] - 192) * 64 + (s[i + 1] - 128)
      [] w = 3 -> (s[i] - 224) * 4096 + (s[i + 1] - 128) * 64 + (s[i + 2] - 128)
      [] OTHER -> (s[i] - 240) * 262144 + (s[i + 1] - 128) * 4096
                     + (s[i + 2] - 128) * 64 + (s[i + 3] - 128)

\* The text (code points) of the well-formed bytes s[i..n]: s.to_string(),
\* String::from_utf8_lossy(&full_buffer[..valid_up_to]).to_string()
RECURSIVE TextFrom(_, _, _)
TextFrom(s, i, n) ==
    IF i > n THEN <<>>
    ELSE <<CodePoint(s, i, CharAt(s, i))>> \o TextFrom(s, i + CharAt(s, i), n)

\* A decoder that converts the whole buffer lossily: the valid part, then a
\* replacement character for what follows it.
Utf8DataLossy(full_buffer) ==
    TextFrom(full_buffer, 1, valid_up_to(full_buffer))
       \o (IF valid_up_to(full_buffer) < Len(full_buffer) THEN <<65533>> ELSE <<>>)

\* let data = match std::str::from_utf8(&full_buffer) { .. }
Utf8Data(full_buffer) == TextFrom(full_buffer, 1, valid_up_to(full_buffer))

\* A decoder that drops the bytes after the valid part.
Utf8CarryNone(full_buffer) == <<>>

\* A decoder that holds over whatever follows the valid part.
Utf8CarryUnbounded(full_buffer) ==
    SubSeq(full_buffer, valid_up_to(full_buffer) + 1, Len(full_buffer))

\* utf8_buffer after the iteration: cleared, then given the bytes after the
\* valid part when they are at most 4.
Utf8Carry(full_buffer) ==
    LET v == valid_up_to(full_buffer)
    IN IF v < Len(full_buffer) /\ Len(full_buffer) - v <= MAX_INCOMPLETE_LEN
       THEN SubSeq(full_buffer, v + 1, Len(full_buffer))
       ELSE <<>>

\* An iteration that emits its pty-output only when the decoded text is not
\* empty.
DecodeReadSkipsEmpty(chunk) ==
    /\ loopExit = "no"
    /\ Len(input) + Len(chunk) <= MaxStream
    /\ LET full_buffer == utf8_buffer \o chunk
       IN /\ utf8_buffer' = Utf8Carry(full_buffer)
          /\ emitted' = emitted \o Utf8Data(full_buffer)
          /\ outputEvents' = IF Utf8Data(full_buffer) = <<>> THEN 0 ELSE 1
    /\ input' = input \o chunk
    /\ UNCHANGED loopExit
    /\ UNCHANGED <<ptyVars, appVars>>

\* One iteration of the reader loop on Ok(n): the held-over bytes and the
\* chunk are decoded, the text is emitted as a pty-output, empty or not.
DecodeRead(chunk) ==
    /\ loopExit = "no"
    /\ Len(input) + Len(chunk) <= MaxStream
    /\ LET full_buffer == utf8_buffer \o chunk
       IN /\ utf8_buffer' = Utf8Carry(full_buffer)
          /\ emitted' = emitted \o Utf8Data(full_buffer)
    /\ input' = input \o chunk
    /\ outputEvents' = 1
    /\ UNCHANGED loopExit
    /\ UNCHANGED <<ptyVars, appVars>>

\* Ok(0) => break, Err(e) => break: the loop is left, nothing is decoded or
\* emitted.
DecodeEnd(how) ==
    /\ loopExit = "no"
    /\ loopExit' = how
    /\ outputEvents' = 0
    /\ UNCHANGED <<utf8_buffer, input, emitted>>
    /\ UNCHANGED <<ptyVars, appVars>>

NextDecoder ==
    \/ \E chunk \in Chunks : DecodeRead(chunk)
    \/ \E how \in {"eof", "err"} : DecodeEnd(how)

SpecDecoder == Init /\ [][NextDecoder]_vars

\* ------------------------------ create_session: the shell's environment
\* A PATH string is the sequence of its pieces: directory names and ":".
\* Vec<String>::join(":")
RECURSIVE Join(_)
Join(dirs) ==
    IF Len(dirs) = 0 THEN <<>>
    ELSE IF Len(dirs) = 1 THEN <<dirs[1]>>
    ELSE <<dirs[1], ":">> \o Join(Tail(dirs))

\* The directories a PATH string lists: what lies between its ":".
RECURSIVE Split(_)
Split(t) ==
    IF t = <<>> THEN <<"">>
    ELSE IF Head(t) = ":" THEN <<"">> \o Split(Tail(t))
    ELSE LET r == Split(Tail(t)) IN <<Head(t) \o Head(r)>> \o Tail(r)

\* The environments create_session can be called in.
Envs ==
    { [v \in EnvNames |-> CASE v = "HOME" -> h [] v = "PATH" -> pth
                             [] v = "SHELL" -> sh [] v = "USER" -> u
                             [] v = "LANG" -> l [] OTHER -> lc] :
        h \in {<<>>, <<"">>, <<"/Users/a">>, <<"/root">>},
        pth \in {<<>>, << <<>> >>, << <<"/usr/bin">> >>,
                 << <<"/custom/bin", ":", "/usr/bin">> >>},
        sh \in {<<>>, <<"/bin/bash">>},
        u \in {<<>>, <<"a">>},
        l \in {<<>>, <<"C">>},
        lc \in {<<>>, <<"C.UTF-8">>} }

\* std::env::var(name).unwrap_or_else(|_| default)
EnvOr(name, default) ==
    IF process_env[name] = <<>> THEN default ELSE process_env[name][1]

\* path_dirs.extend([..]): the common system paths
CommonPaths ==
    <<"/opt/homebrew/bin", "/opt/homebrew/sbin", "/usr/local/bin",
      "/usr/local/sbin", "/usr/bin", "/bin", "/usr/sbin", "/sbin">>

\* path_dirs: the user's bin directories when home is not empty, then the
\* common system paths
PathDirs(home) ==
    (IF home # "" THEN <<home \o "/bin", home \o "/.local/bin">> ELSE <<>>)
       \o CommonPaths

\* A PATH that puts the inherited PATH ahead of the directories built here.
FullPathInheritedFirst(home) ==
    IF process_env["PATH"] # <<>>
    THEN process_env["PATH"][1] \o <<":">> \o Join(PathDirs(home))
    ELSE Join(PathDirs(home))

\* let base_path = path_dirs.join(":"); let full_path = if let Ok(existing)
\* = std::env::var("PATH") { format!("{}:{}", base_path, existing) } else
\* { base_path }
FullPath(home) ==
    IF process_env["PATH"] # <<>>
    THEN Join(PathDirs(home)) \o <<":">> \o process_env["PATH"][1]
    ELSE Join(PathDirs(home))

\* create_session, from the shell lookup to the last cmd.env: the command is
\* built from the process environment, which is only read.
BuildCommand ==
    /\ cmd = <<>>
    /\ LET shell == EnvOr("SHELL", "/bin/zsh")
           home == EnvOr("HOME", "/")
       IN cmd' = << [program |-> shell, cwd |-> home,
                     env |-> [TERM |-> <<"xterm-256color">>,
                              COLORTERM |-> <<"truecolor">>,
                              HOME |-> <<home>>,
                              SHELL |-> <<shell>>,
                              USER |-> process_env["USER"],
                              LANG |-> <<EnvOr("LANG", "en_US.UTF-8")>>,
                              PATH |-> <<FullPath(home)>>,
                              LC_ALL |-> process_env["LC_ALL"]]] >>
    /\ UNCHANGED process_env
    /\ UNCHANGED <<ptyVars, decVars, settingsVars, screenVars>>

InitPath ==
    /\ InitPty /\ InitSettings /\ InitScreens
    /\ process_env \in Envs
    /\ cmd = <<>>

NextPath == BuildCommand

SpecPath == InitPath /\ [][NextPath]_vars

\* ------------------------------------------------- SettingsManager
\* The bounds of AppSettings::validate; opacity is in hundredths.
OPACITY_MIN == 30
OPACITY_MAX == 100
FONT_SIZE_MIN == 10
FONT_SIZE_MAX == 24
U8_MAX == 255

\* Ord::clamp, f64::clamp
Clamp(v, lo, hi) == IF v < lo THEN lo ELSE IF v > hi THEN hi ELSE v

\* A validate that clamps the opacity only.
validateOpacityOnly(a) ==
    [a EXCEPT !.opacity = Clamp(@, OPACITY_MIN, OPACITY_MAX)]

\* AppSettings::validate
validate(a) ==
    [a EXCEPT !.opacity = Clamp(@, OPACITY_MIN, OPACITY_MAX),
              !.font_size = Clamp(@, FONT_SIZE_MIN, FONT_SIZE_MAX)]

\* The font sizes (u8) and opacities a caller can pass.
FontSizes == {0, 9, 10, 13, 24, 25, 255}
Opacities == {0, 30, 90, 100, 150}

\* The AppSettings a caller can pass to update.
AppSettingsInputs ==
    [opacity : Opacities, font_size : FontSizes, shortcut_enabled : BOOLEAN,
     onboarding_complete : {FALSE}, pinned : BOOLEAN]

\* serde_json::to_string_pretty(&*settings): every field is written.
ToFile(a) ==
    [kind |-> "json", opacity |-> <<a.opacity>>, font_size |-> <<a.font_size>>,
     shortcut_enabled |-> <<a.shortcut_enabled>>,
     onboarding_complete |-> <<a.onboarding_complete>>, pinned |-> <<a.pinned>>]

\* The files SettingsManager::new can find: none, one that is not JSON, and
\* JSON objects with fields present or not, a font_size beyond u8 included.
SettingsFiles ==
    {NoFile, [NoFile EXCEPT !.kind = "unparsable"]}
       \cup { [NoFile EXCEPT !.kind = "json", !.opacity = o, !.font_size = f,
                             !.pinned = pn] :
                o \in {<<>>, <<10>>, <<200>>},
                f \in {<<>>, <<5>>, <<15>>, <<200>>, <<256>>},
                pn \in {<<>>, <<TRUE>>} }

\* #[serde(default = ..)]: the field, or its default when it is absent
FieldOr(field, default) == IF field = <<>> THEN default ELSE field[1]

\* SettingsManager::load_settings: defaults when the file is missing or does
\* not parse (a font_size that is not a u8 does not), the validated content
\* otherwise.
load_settings(file) ==
    IF file.kind # "json" THEN AppSettingsDefault
    ELSE IF file.font_size # <<>> /\ file.font_size[1] \notin 0..U8_MAX
         THEN AppSettingsDefault
    ELSE validate([opacity |-> FieldOr(file.opacity, DEFAULT_OPACITY),
                   font_size |-> FieldOr(file.font_size, DEFAULT_FONT_SIZE),
                   shortcut_enabled |-> FieldOr(file.shortcut_enabled, TRUE),
                   onboarding_complete |-> FieldOr(file.onboarding_complete, FALSE),
                   pinned |-> FieldOr(file.pinned, FALSE)])

\* SettingsManager::save_settings after the settings became a: the file is
\* written, or left as it was when the write fails.
save_settings(a) ==
    settings_file' \in {ToFile(a), settings_file}

\* SettingsManager::new(settings_path) over the file as it is now
SettingsNew ==
    /\ settings' = load_settings(settings_file)
    /\ settings_arg' = <<>>
    /\ UNCHANGED settings_file
    /\ UNCHANGED <<ptyVars, decVars, envVars, screenVars>>

\* SettingsManager::update
SettingsUpdate(new_settings) ==
    /\ settings' = validate(new_settings)
    /\ settings_arg' = <<new_settings.font_size>>
    /\ save_settings(settings')
    /\ UNCHANGED <<ptyVars, decVars, envVars, screenVars>>

\* SettingsManager::set_opacity
SetOpacity(opacity) ==
    /\ settings' = [settings EXCEPT !.opacity = Clamp(opacity, OPACITY_MIN, OPACITY_MAX)]
    /\ settings_arg' = <<>>
    /\ save_settings(settings')
    /\ UNCHANGED <<ptyVars, decVars, envVars, screenVars>>

\* SettingsManager::set_font_size
SetFontSize(font_size) ==
    /\ settings' = [settings EXCEPT
                      !.font_size = Clamp(font_size, FONT_SIZE_MIN, FONT_SIZE_MAX)]
    /\ settings_arg' = <<font_size>>
    /\ save_settings(settings')
    /\ UNCHANGED <<ptyVars, decVars, envVars, screenVars>>

\* SettingsManager::set_pinned
SetPinned(pinned) ==
    /\ settings' = [settings EXCEPT !.pinned = pinned]
    /\ settings_arg' = <<>>
    /\ save_settings(settings')
    /\ UNCHANGED <<ptyVars, decVars, envVars, screenVars>>

\* SettingsManager::set_onboarding_complete
SetOnboardingComplete(complete) ==
    /\ settings' = [settings EXCEPT !.onboarding_complete = complete]
    /\ settings_arg' = <<>>
    /\ save_settings(settings')
    /\ UNCHANGED <<ptyVars, decVars, envVars, screenVars>>

\* The manager as SettingsManager::new leaves it, over any of the files.
InitSettingsLoaded ==
    /\ InitPty /\ InitEnv /\ InitScreens
    /\ settings_file \in SettingsFiles
    /\ settings = load_settings(settings_file)
    /\ settings_arg = <<>>

NextSettings ==
    \/ SettingsNew
    \/ \E a \in AppSettingsInputs : SettingsUpdate(a)
    \/ \E o \in Opacities : SetOpacity(o)
    \/ \E f \in FontSizes : SetFontSize(f)
    \/ \E b \in BOOLEAN : SetPinned(b) \/ SetOnboardingComplete(b)

SpecSettings == InitSettingsLoaded /\ [][NextSettings]_vars

\* ---------------------------------------------- ScreenConfigManager
\* MARGIN_RATIO, in hundredths
MARGIN_RATIO == 95

\* The window configurations a caller can pass to set_config: one without
\* a position, one with.
WindowConfigs ==
    { [width |-> 800, height |-> 600, x |-> <<>>, y |-> <<>>],
      [width |-> 1200, height |-> 400, x |-> <<100>>, y |-> <<50>>] }

\* The available screen sizes a caller can pass to get_or_create_config.
AvailableSizes == { <<1000, 800>>, <<2000, 1000>> }

\* ScreenConfigManager::calculate_default_config
calculate_default_config(available_width, available_height) ==
    [width |-> (available_width * MARGIN_RATIO) \div 100,
     height |-> (available_height * MARGIN_RATIO) \div 100,
     x |-> <<>>, y |-> <<>>]

\* The files ScreenConfigManager::new can find: none, one that is not a JSON
\* map of configurations, and maps with a configuration for some screens.
ConfigFiles ==
    {NoConfigFile, [NoConfigFile EXCEPT !.kind = "unparsable"]}
       \cup { [kind |-> "json", map |-> m] :
                m \in [Screens -> {<<>>} \cup {<<c>> : c \in WindowConfigs}] }

\* ScreenConfigManager::load_configs
load_configs(file) == IF file.kind = "json" THEN file.map ELSE NoConfigs

\* ScreenConfigManager::save_configs after the map became m: the file is
\* written, or left as it was when the write fails.
save_configs(m) ==
    config_file' \in {[kind |-> "json", map |-> m], config_file}

\* ScreenConfigManager::new(config_path) over the file as it is now
ScreenNew ==
    /\ configs' = load_configs(config_file)
    /\ lastSet' = NoConfigs
    /\ loadedConfigs' = configs'
    /\ screenRet' = [NoScreenRet EXCEPT !.op = "new"]
    /\ UNCHANGED config_file
    /\ UNCHANGED <<ptyVars, decVars, envVars, settingsVars>>

\* ScreenConfigManager::get_config
GetConfig(screen_id) ==
    /\ screenRet' = [NoScreenRet EXCEPT !.op = "get_config", !.screen = screen_id,
                                        !.value = configs[screen_id]]
    /\ UNCHANGED <<configs, config_file, lastSet, loadedConfigs>>
    /\ UNCHANGED <<ptyVars, decVars, envVars, settingsVars>>

\* A set_config that keeps the configuration a screen already has.
SetConfigIfAbsent(screen_id, config) ==
    /\ configs' = IF configs[screen_id] = <<>>
                  THEN [configs EXCEPT ![screen_id] = <<config>>] ELSE configs
    /\ save_configs(configs')
    /\ lastSet' = [lastSet EXCEPT ![screen_id] = <<config>>]
    /\ loadedConfigs' = [loadedConfigs EXCEPT ![screen_id] = <<>>]
    /\ screenRet' = [NoScreenRet EXCEPT !.op = "set_config", !.screen = screen_id,
                                        !.arg = <<config>>]
    /\ UNCHANGED <<ptyVars, decVars, envVars, settingsVars>>

\* ScreenConfigManager::set_config
SetConfig(screen_id, config) ==
    /\ configs' = [configs EXCEPT ![screen_id] = <<config>>]
    /\ save_configs(configs')
    /\ lastSet' = [lastSet EXCEPT ![screen_id] = <<config>>]
    /\ loadedConfigs' = [loadedConfigs EXCEPT ![screen_id] = <<>>]
    /\ screenRet' = [NoScreenRet EXCEPT !.op = "set_config", !.screen = screen_id,
                                        !.arg = <<config>>]
    /\ UNCHANGED <<ptyVars, decVars, envVars, settingsVars>>

\* ScreenConfigManager::get_or_create_config
GetOrCreateConfig(screen_id, available) ==
    /\ screenRet' =
         [op |-> "get_or_create_config", screen |-> screen_id, arg |-> available,
          value |-> IF configs[screen_id] # <<>> THEN configs[screen_id]
                    ELSE <<calculate_default_config(available[1], available[2])>>,
          flag |-> configs[screen_id] = <<>>]
    /\ UNCHANGED <<configs, config_file, lastSet, loadedConfigs>>
    /\ UNCHANGED <<ptyVars, decVars, envVars, settingsVars>>

\* ScreenConfigManager::clear_config
ClearConfig(screen_id) ==
    /\ configs' = [configs EXCEPT ![screen_id] = <<>>]
    /\ IF configs[screen_id] # <<>> THEN save_configs(configs')
                                    ELSE UNCHANGED config_file
    /\ lastSet' = [lastSet EXCEPT ![screen_id] = <<>>]
    /\ loadedConfigs' = [loadedConfigs EXCEPT ![screen_id] = <<>>]
    /\ screenRet' = [NoScreenRet EXCEPT !.op = "clear_config", !.screen = screen_id,
                                        !.flag = configs[screen_id] # <<>>]
    /\ UNCHANGED <<ptyVars, decVars, envVars, settingsVars>>

\* ScreenConfigManager::clear_all_configs
ClearAllConfigs ==
    /\ configs' = NoConfigs
    /\ save_configs(configs')
    /\ lastSet' = NoConfigs
    /\ loadedConfigs' = NoConfigs
    /\ screenRet' = [NoScreenRet EXCEPT !.op = "clear_all_configs"]
    /\ UNCHANGED <<ptyVars, decVars, envVars, settingsVars>>

\* The manager as ScreenConfigManager::new leaves it, over any of the files.
InitScreensLoaded ==
    /\ InitPty /\ InitEnv /\ InitSettings
    /\ config_file \in ConfigFiles
    /\ configs = load_configs(config_file)
    /\ lastSet = NoConfigs
    /\ loadedConfigs = configs
    /\ screenRet = [NoScreenRet EXCEPT !.op = "new"]

NextScreens ==
    \/ ScreenNew
    \/ \E sc \in Screens : GetConfig(sc)
    \/ \E sc \in Screens, c \in WindowConfigs : SetConfig(sc, c)
    \/ \E sc \in Screens, av \in AvailableSizes : GetOrCreateConfig(sc, av)
    \/ \E sc \in Screens : ClearConfig(sc)
    \/ ClearAllConfigs

SpecScreens == InitScreensLoaded /\ [][NextScreens]_vars

\* ------------------------------------------------------------ claims
\* cols in [20, 500] and rows in [5, 200]
InRange(cols, rows) == 20 <= cols /\ cols <= 500 /\ 5 <= rows /\ rows <= 200

RangeErrors == {"InvalidCols", "InvalidRows"}

\* The slots whose session carries this id.
SlotsOf(id) == {k \in 1..nCreated : sid[k] = id}

\* C1: every session id present in the Registry refers to a session whose
\* reader has been started and has not yet terminated.
C1_RegistryReaderRunning ==
    \A id \in DOMAIN sessions : rpc[sessions[id]] \notin {"none", "done"}

\* C2: at most one pty-exit is ever emitted for a session id, and no
\* pty-output for that id is emitted after its pty-exit.
C2_ExitEventIsLast ==
    \A id \in AllIds : exitCount[id] <= 1 /\ ~lateOutput[id]

\* A close_session that found the session returns, its one pty-exit emitted.
C2_Witness ==
    ret.op = "close" /\ ret.k # NoSlot /\ exitCount[ret.id] = 1

\* C3: whenever a pty-exit for an id has been emitted, the Registry
\* entry of that id is already removed, so that a write_to_session or
\* resize_session started after the pty-exit fails with "Session not found".
C3_ExitOnlyAfterRemoval ==
    /\ \A id \in AllIds : exitCount[id] > 0 => id \notin DOMAIN sessions
    /\ \A p \in Callers :
          call[p].op \in {"write", "resize"} => call[p].afterExit = "no"
    /\ (ret.op \in {"write", "resize"} /\ ret.afterExit # "no"
            /\ ret.res \notin RangeErrors)
          => ret.res = "SessionNotFound"

\* C4, as claimed: at the moment any close_session(id) call returns, for an id
\* create_session returned, the reader of the session has exited and its
\* pty-exit has been emitted.
C4_EveryCloseReturnsAfterReaderExit ==
    (ret.op = "close" /\ ret.id \in returned)
       => /\ exitCount[ret.id] >= 1
          /\ \A k \in SlotsOf(ret.id) : rpc[k] = "done"

\* C4, amended: a close_session(id) call that found id in the Registry returns
\* only after the reader has exited: its pty-exit has been emitted, and no
\* event for id is emitted once such a call has returned.
C4_FoundCloseJoinsReader ==
    /\ (ret.op = "close" /\ ret.k # NoSlot)
          => (rpc[ret.k] = "done" /\ exitCount[ret.id] >= 1)
    /\ \A id \in AllIds : ~lateEvent[id]

\* A close_session that found the session returns.
C4_Witness ==
    ret.op = "close" /\ ret.k # NoSlot /\ ret.res = "Ok" /\ closed[ret.id] = "joined"

\* C5: close_session always returns success; called with an id that is not
\* in the Registry it returns at once and leaves the Registry, every session
\* and every reader unchanged.
C5_CloseIdempotent ==
    [][ /\ ret'.op = "close" => ret'.res = "Ok"
        /\ \A p \in Callers :
              (call[p].op = "idle" /\ call'[p].op = "close")
                 => call'[p].id \in DOMAIN sessions
        /\ (ret'.op = "close" /\ ret'.k = NoSlot)
              => UNCHANGED <<sessions, regLock, sessVars, readerVars, eventVars,
                             returned>> ]_vars

\* A second close_session of a session id returns success without finding it.
C5_Witness ==
    /\ ret.op = "close" /\ ret.k = NoSlot /\ ret.res = "Ok"
    /\ ret.afterClose /\ ret.id \in returned

\* C6: write_to_session and resize_session (valid dimensions) get past the
\* lookup only for an id in the Registry; otherwise the call returns "Session
\* not found", has done no I/O and leaves the Registry and every session
\* unchanged.
C6_MissingSessionNotFound ==
    [][ /\ \A p \in Callers :
              (call[p].op = "idle" /\ call'[p].op \in {"write", "resize"})
                 => call'[p].id \in DOMAIN sessions
        /\ (/\ ret'.op \in {"write", "resize"}
            /\ call' = call
            /\ ret'.op = "resize" => InRange(ret'.cols, ret'.rows))
              => /\ ret'.id \notin DOMAIN sessions
                 /\ ret'.res = "SessionNotFound"
                 /\ ~ret'.io
                 /\ UNCHANGED <<sessions, regLock, sessVars, readerVars,
                                eventVars, returned>> ]_vars

\* A resize_session on the id of a session that is gone returns "Session not
\* found".
C6_Witness ==
    ret.op = "resize" /\ ret.res = "SessionNotFound" /\ ret.id \in returned

\* C7: once create_session has returned id and a close_session(id) has
\* returned, id is never in the Registry again, and every write_to_session,
\* resize_session (valid dimensions) and get_session_cwd for id that starts
\* afterwards returns "Session not found".
C7_ClosedIdStaysInvalid ==
    /\ \A id \in returned : closed[id] # "no" => id \notin DOMAIN sessions
    /\ \A p \in Callers :
          call[p].op \in {"write", "resize", "cwd"} => ~call[p].afterClose
    /\ (ret.op \in {"write", "resize", "cwd"} /\ ret.afterClose
            /\ ret.res \notin RangeErrors)
          => ret.res = "SessionNotFound"

\* A get_session_cwd started after create and close of its id returns "Session
\* not found".
C7_Witness ==
    /\ ret.op = "cwd" /\ ret.afterClose /\ ret.id \in returned
    /\ ret.res = "SessionNotFound"

\* C8: create_session and resize_session reject the dimensions with a range
\* error exactly when cols is outside [20, 500] or rows outside [5, 200], and
\* a rejected call changes nothing.
C8_ValidateIffInRange ==
    ret.op \in {"create", "resize"}
       => /\ (ret.res \notin RangeErrors) <=> InRange(ret.cols, ret.rows)
          /\ ret.res \in RangeErrors => (nCreated = 0 /\ sessions = <<>> /\ ~ret.io)

\* The largest geometry is accepted (the call goes on to the lookup).
C8_Witness ==
    /\ ret.op = "resize" /\ ret.cols = 500 /\ ret.rows = 200
    /\ ret.res = "SessionNotFound"

\* C9: a resize_session with cols or rows out of range returns the range
\* error for any id, never "Session not found", takes no lock, changes no
\* geometry, and never reaches the resize of the PTY.
C9_ResizeValidatesFirst ==
    /\ [](\A p \in Callers :
             call[p].op = "resize" => InRange(call[p].cols, call[p].rows))
    /\ [][ (ret'.op = "resize" /\ ~InRange(ret'.cols, ret'.rows))
              => /\ ret'.res \in RangeErrors
                 /\ ~ret'.io
                 /\ UNCHANGED <<regLock, sessLock, geom, sessions>> ]_vars

\* An out-of-range resize_session of a registered session returns its range
\* error while another caller holds the Registry lock.
C9_Witness ==
    /\ ret.op = "resize" /\ ret.res \in RangeErrors
    /\ ret.id \in DOMAIN sessions /\ regLock # 0

C12_BlockedSessionStallsNoOther ==
    \A p \in Callers :
       (/\ call[p].op \in {"write", "resize", "cwd", "close"}
        /\ call[p].k # NoSlot
        /\ sessLock[call[p].k] \notin {0, p})
          => regLock # p

\* C13 (reads never fail: every reader that leaves its loop with the flag
\* unset has read EOF): a session whose id create_session has returned and
\* whose shell exited on its own ends with exactly one pty-exit and with its id out of the
\* Registry, without any close_session: once its reader has finished (the
\* flag never set, no close_session(id) called), nothing is left to remove
\* the entry, so the id is absent by then.
C13_NaturalExitRemovesEntry ==
    \A k \in 1..nCreated :
       (/\ sid[k] \in returned
        /\ rpc[k] = "done" /\ ~shutdown_flag[k]
        /\ closed[sid[k]] = "no"
        /\ \A p \in Callers : ~(call[p].op = "close" /\ call[p].id = sid[k]))
          => /\ exitCount[sid[k]] = 1
             /\ sid[k] \notin DOMAIN sessions

\* The bytes s[i..] are the beginning of a well-formed character, cut short.
IncompleteAt(s, i) ==
    /\ Utf8Width(s[i]) >= 2
    /\ Len(s) - i + 1 < Utf8Width(s[i])
    /\ i + 1 <= Len(s) => SecondOk(s[i], s[i + 1])
    /\ \A j \in (i + 2)..Len(s) : IsCont(s[j])

\* s is the beginning of a valid UTF-8 stream.
ValidStream(s) ==
    valid_up_to(s) = Len(s) \/ IncompleteAt(s, valid_up_to(s) + 1)

\* C14: whatever the chunks a valid UTF-8 stream arrives in, the data of the
\* pty-output events so far, concatenated, are the text of the bytes read so
\* far without a trailing incomplete character, and those bytes are the ones
\* held over.
C14_ChunkedDecodeIsWholeDecode ==
    ValidStream(input)
       => /\ emitted = TextFrom(input, 1, valid_up_to(input))
          /\ utf8_buffer = SubSeq(input, valid_up_to(input) + 1, Len(input))

\* After 'A' the first three bytes of a 4-byte character have been read: 'A'
\* is emitted, the three bytes are held over.
C14_Witness ==
    /\ ValidStream(input) /\ Len(input) = 4
    /\ emitted = <<65>> /\ Len(utf8_buffer) = 3

\* C15: after every iteration the bytes held over are at most 4, for any
\* input.
C15_CarryAtMostFour ==
    Len(utf8_buffer) <= 4

\* Five continuation bytes and no lead byte have been read: nothing is held
\* over, nothing was emitted.
C15_Witness ==
    /\ Len(input) = 5 /\ \A i \in 1..5 : IsCont(input[i])
    /\ utf8_buffer = <<>> /\ emitted = <<>>

\* C16: every close_session that has found its session in the Registry
\* eventually returns, whatever its reader is doing.
C16_CloseReturns ==
    \A p \in Callers : (call[p].op = "close") ~> (call[p].op = "idle")

\* C17: a create_session that returns an error has changed nothing: no
\* session is built, no child and no reader thread exist that did not before,
\* no event is emitted, the Registry and the ids handed out are the same; and
\* one that fails validation has not reached the operating system.
C17_FailedCreateLeavesNoTrace ==
    [][ (ret'.op = "create" /\ ret'.res # "Ok")
           => /\ UNCHANGED <<sessions, regLock, sessVars, readerVars, eventVars,
                             returned, call>>
              /\ ret'.res \in RangeErrors => ~ret'.io ]_vars

\* A create_session fails to take the writer while another session is
\* registered.
C17_Witness ==
    ret.op = "create" /\ ret.res = "WriterError" /\ DOMAIN sessions # {}

\* C18: a write_to_session or resize_session whose I/O fails returns the error
\* and ends nothing: the step leaves the Registry, the shutdown flags, the
\* children, the readers, the geometry and the events as they were.
C18_IoErrorKeepsSession ==
    [][ ret'.res = "IoError"
           => /\ ret'.op \in {"write", "resize"} /\ ret'.io
              /\ UNCHANGED <<sessions, regLock, shutdown_flag, child, reader_thread,
                             geom, readerVars, eventVars>> ]_vars

\* A resize_session has failed in the resize of the PTY: its session is still
\* registered, the flag unset, the reader in its loop, no pty-exit emitted.
C18_Witness ==
    /\ ret.op = "resize" /\ ret.res = "IoError"
    /\ ret.id \in DOMAIN sessions /\ ~shutdown_flag[ret.k]
    /\ rpc[ret.k] \in {"check", "read"} /\ exitCount[ret.id] = 0

\* C19: get_session_cwd returns "Session not found" exactly when the id is
\* not in the Registry; for an id in the Registry it returns the path or an
\* absent result, never an error; and none of its steps changes the Registry,
\* a session, a reader or an event.
C19_CwdNotFoundIffAbsent ==
    [][ /\ ret'.op = "cwd"
              => /\ ret'.res \in {"SessionNotFound", "Path", "Absent"}
                 /\ (ret'.res = "SessionNotFound") = (ret'.id \notin DOMAIN sessions)
        /\ (\/ ret'.op = "cwd"
            \/ \E p \in Callers : call'[p].op = "cwd" /\ call[p].op # "cwd")
              => UNCHANGED <<sessions, sessVars, readerVars, eventVars, returned>> ]_vars

\* A get_session_cwd on a registered session returns an absent result.
C19_Witness ==
    ret.op = "cwd" /\ ret.res = "Absent" /\ ret.id \in DOMAIN sessions

\* C20: a validation failure of create_session or resize_session names the
\* offending dimension, its value and both bounds of that dimension; cols is
\* checked first, so with both out of range the error is about cols.
C20_RangeErrorNamesDimension ==
    (ret.op \in {"create", "resize"} /\ ~InRange(ret.cols, ret.rows))
       => IF ret.cols < 20 \/ ret.cols > 500
          THEN /\ ret.res = "InvalidCols"
               /\ ret.msg = [dim |-> "cols", value |-> ret.cols, min |-> 20, max |-> 500]
          ELSE /\ ret.res = "InvalidRows"
               /\ ret.msg = [dim |-> "rows", value |-> ret.rows, min |-> 5, max |-> 200]

\* cols and rows are both out of range: the error reports cols.
C20_Witness ==
    /\ ret.op = "resize" /\ ret.cols = 501 /\ ret.rows = 4
    /\ ret.msg = [dim |-> "cols", value |-> 501, min |-> 20, max |-> 500]

\* The child of slot k has been killed by a close_session that has not yet
\* joined the reader.
KilledByClose(k) ==
    \E p \in Callers : call[p].op = "close" /\ call[p].k = k /\ call[p].pc = "join"

\* C21: a close_session that found its session has removed the entry before
\* it sets the flag, has set the flag before it kills, and has killed before
\* it joins; and a reader whose read ends once the close has killed goes
\* straight to the pty-exit, with an absent exit code, without waiting for
\* the child.
C21_CloseOrderAndForcedExit ==
    /\ [](\A p \in Callers :
             call[p].op = "close"
                => /\ call[p].id \notin DOMAIN sessions
                   /\ call[p].pc \in {"kill", "join"} => shutdown_flag[call[p].k]
                   /\ call[p].pc = "join" => child[call[p].k] = "exited")
    /\ [][ \A k \in Slots :
              (rpc[k] = "read" /\ rpc'[k] \notin {"read", "check"} /\ KilledByClose(k))
                 => (rpc'[k] = "emit" /\ exit_code'[k] = "None") ]_vars

\* The reader of a session being closed has left its read after the kill and
\* is about to emit the pty-exit with an absent exit code.
C21_Witness ==
    \E k \in Slots :
       KilledByClose(k) /\ rpc[k] = "emit" /\ exit_code[k] = "None"

\* C22: a reader that leaves its loop with the flag unset goes on to wait for
\* the child, and one that leaves it with the flag set does not; the exit
\* code the pty-exit carries is 0 for a child that exited with success, 1
\* for every other status, and absent when the wait failed or was skipped.
C22_ExitCodeFromWait ==
    /\ [][ \A k \in Slots :
              (rpc[k] \in {"check", "read"} /\ rpc'[k] \notin {"check", "read"})
                 => (rpc'[k] = "lock" <=> ~shutdown_flag[k]) ]_vars
    /\ [](\A k \in Slots :
             rpc[k] = "emit"
                => /\ wait_status[k] = "ExitedZero" <=> exit_code[k] = "Some0"
                   /\ wait_status[k] \in {"ExitedNonZero", "Signalled"}
                         <=> exit_code[k] = "Some1"
                   /\ wait_status[k] \in {"none", "WaitFailed"}
                         <=> exit_code[k] = "None")

\* A reader is about to emit a pty-exit with code 1 for a child that a signal
\* ended, after a wait that no shutdown request cut short.
C22_Witness ==
    \E k \in Slots :
       /\ rpc[k] = "emit" /\ ~shutdown_flag[k]
       /\ wait_status[k] = "Signalled" /\ exit_code[k] = "Some1"

\* The positions at which a caller is about to take a session lock, holds
\* one, does session I/O, queries the platform or joins a reader.
SessionSteps == {"lock", "io", "sess", "signal", "kill", "join"}

\* C23: the Registry lock is held for the map operation only: a caller that
\* is at a step where it takes or holds a session lock, does session I/O,
\* queries the platform or joins a reader does not hold the Registry lock,
\* and neither does a reader outside its removal.
C23_RegistryLockOnlyForMap ==
    /\ \A p \in Callers : call[p].pc \in SessionSteps => regLock # p
    /\ regLock \notin {-k : k \in Slots}

\* C24: the child handle is touched under the session lock only: the reader
\* is inside child.wait() exactly while it holds the lock of its session, and
\* no close_session kills the child of a session whose reader is inside its
\* wait or whose lock is taken.
C24_ChildOnlyUnderSessionLock ==
    /\ [](\A k \in Slots : rpc[k] = "wait" <=> sessLock[k] = -1)
    /\ [][ \A p \in Callers :
              (call[p].op = "close" /\ call[p].pc = "kill" /\ call'[p].pc = "join")
                 => (sessLock[call[p].k] = 0 /\ rpc[call[p].k] # "wait") ]_vars

\* A close_session has reached its kill while the reader of the same session
\* is inside child.wait().
C24_Witness ==
    \E p \in Callers :
       /\ call[p].op = "close" /\ call[p].pc = "kill"
       /\ rpc[call[p].k] = "wait" /\ child[call[p].k] = "running"

\* C25: the reader starts a read only from the flag test at the head of its
\* loop and only when that test found the flag unset; so a session whose flag
\* has been set gets at most one more pty-output, the one of the read that was
\* in progress, and none once that read is over.
C25_AtMostOneOutputAfterFlag ==
    /\ [][ \A k \in Slots :
              (rpc'[k] = "read" /\ rpc[k] # "read")
                 => (rpc[k] = "check" /\ ~shutdown_flag[k]) ]_vars
    /\ [](\A k \in Slots :
             sid[k] # NoSuchId
                => /\ flaggedOutputs[sid[k]] <= 1
                   /\ (flaggedOutputs[sid[k]] = 1 => rpc[k] # "read"))

\* The one pty-output after the flag was set has been emitted and the reader
\* is back at the flag test.
C25_Witness ==
    \E k \in Slots :
       /\ sid[k] # NoSuchId /\ shutdown_flag[k]
       /\ flaggedOutputs[sid[k]] = 1 /\ rpc[k] = "check"

\* t is well-formed UTF-8: it is empty, or it ends with a complete character
\* that follows well-formed bytes.
RECURSIVE WellFormed(_)
WellFormed(t) ==
    \/ Len(t) = 0
    \/ \E w \in 1..4 :
          /\ w <= Len(t)
          /\ CharAt(SubSeq(t, Len(t) - w + 1, Len(t)), 1) = w
          /\ WellFormed(SubSeq(t, 1, Len(t) - w))

\* The length of the longest well-formed prefix of s.
LongestValidPrefix(s) ==
    CHOOSE n \in 0..Len(s) :
       /\ WellFormed(SubSeq(s, 1, n))
       /\ \A m \in (n + 1)..Len(s) : ~WellFormed(SubSeq(s, 1, m))

\* C26: an iteration that read a non-empty chunk emits exactly the text of
\* the longest valid UTF-8 prefix of the held-over bytes followed by the
\* chunk; the bytes after that prefix are the new held-over bytes when they
\* are 4 or fewer and are dropped when they are more; nothing is held over
\* when the whole sequence is valid.
C26_EmitsLongestValidPrefix ==
    [][ LET chunk == SubSeq(input', Len(input) + 1, Len(input'))
            full == utf8_buffer \o chunk
            n == LongestValidPrefix(full)
            rest == SubSeq(full, n + 1, Len(full))
        IN input' # input
              => /\ emitted' = emitted \o TextFrom(full, 1, n)
                 /\ utf8_buffer' = IF Len(rest) <= 4 THEN rest ELSE <<>>
                 /\ n = Len(full) => utf8_buffer' = <<>> ]_vars

\* 'A' and a stray continuation byte were read, then the two bytes of U+00C0
\* in one chunk: 'A' is the only text emitted, the three bytes from the
\* stray one on are held over.
C26_Witness ==
    /\ input = <<65, 128, 195, 128>>
    /\ emitted = <<65>>
    /\ utf8_buffer = <<128, 195, 128>>

\* The text of every complete, well-formed character among the bytes s[i..],
\* the bytes that belong to none being passed over one at a time.
RECURSIVE ValidChars(_, _)
ValidChars(s, i) ==
    IF i > Len(s) THEN <<>>
    ELSE IF CharAt(s, i) = 0 THEN ValidChars(s, i + 1)
    ELSE <<CodePoint(s, i, CharAt(s, i))>> \o ValidChars(s, i + CharAt(s, i))

\* C27: no well-formed character is lost, whatever the bytes and the chunks:
\* the text emitted so far, followed by the characters still among the
\* held-over bytes, is the text of every complete well-formed character read
\* so far, those after an invalid byte included.
C27_OnlyMalformedBytesDiscarded ==
    emitted \o ValidChars(utf8_buffer, 1) = ValidChars(input, 1)

\* C28: every session in the Registry has its reader's join handle stored,
\* and a close_session that found its session has taken a handle by the time
\* it kills and joins.
C28_RegisteredSessionHasHandle ==
    /\ \A id \in DOMAIN sessions : reader_thread[sessions[id]] = "some"
    /\ \A p \in Callers :
          (call[p].op = "close" /\ call[p].pc \in {"kill", "join"})
             => (call[p].handle /\ reader_thread[call[p].k] = "taken")

\* A close_session holds the handle it took and is about to join, while
\* another session is registered with its handle stored.
C28_Witness ==
    /\ \E p \in Callers :
          call[p].op = "close" /\ call[p].pc = "join" /\ call[p].handle
    /\ \E id \in DOMAIN sessions : reader_thread[sessions[id]] = "some"

\* C29: whatever path the reader left its loop by, its pty-exit is emitted
\* before its Registry removal; the removal takes the entry out, or finds it
\* gone because a close_session of that session took it out; so the entry of
\* a finished reader has been removed once and is not in the Registry.
C29_ExitThenRemoveOnce ==
    /\ [](\A k \in Slots :
             rpc[k] \in {"remove", "done"} => exitCount[sid[k]] = 1)
    /\ [][ \A k \in Slots :
              (rpc[k] = "remove" /\ rpc'[k] = "done")
                 => /\ sid[k] \notin DOMAIN sessions'
                    /\ \/ sid[k] \in DOMAIN sessions
                       \/ \E p \in Callers :
                             call[p].op = "close" /\ call[p].k = k ]_vars

\* C30: a reader that left its loop with no shutdown requested, a failed read
\* included, starts no other read and returns nothing to any caller; it goes on to emit
\* its pty-exit, with no close_session needed for that, and a
\* write_to_session, resize_session or close_session in progress meanwhile
\* returns.
C30_ReadErrorEndsSession ==
    /\ [][ \A k \in Slots :
              rpc[k] \in {"lock", "wait"}
                 => /\ rpc'[k] \in {"lock", "wait", "emit"}
                    /\ rpc'[k] # rpc[k] => ret' = NoRet ]_vars
    /\ \A k \in Slots :
          (rpc[k] \in {"lock", "wait"}) ~> (exitCount[sid[k]] = 1)
    /\ \A p \in Callers :
          (call[p].op \in {"write", "resize", "close"}) ~> (call[p].op = "idle")

\* C31: of the close_session calls made for one session, one only finds the
\* entry: no two calls are ever past the removal for the same session, a
\* call gets past it only if no call for that session did before, and so the
\* flag-set, kill and join are done by one call and the handle is taken
\* once; every other call returns by the not-found path.
C31_OneCloseFindsSession ==
    /\ [](\A p, q \in Callers :
             (p # q /\ call[p].op = "close" /\ call[q].op = "close")
                => call[p].k # call[q].k)
    /\ [][ \A p \in Callers :
              (call[p].op # "close" /\ call'[p].op = "close")
                 => /\ call'[p].k # NoSlot
                    /\ closed[call'[p].id] # "joined"
                    /\ reader_thread[call'[p].k] = "some"
                    /\ \A q \in Callers :
                          call[q].op = "close" => call[q].id # call'[p].id ]_vars
    /\ [][ (ret'.op = "close" /\ ret'.k = NoSlot)
              => UNCHANGED <<sessVars, readerVars, eventVars>> ]_vars

\* While one close_session of a session is past the removal and has not
\* returned, another close_session of the same session returns by the
\* not-found path.
C31_Witness ==
    /\ ret.op = "close" /\ ret.k = NoSlot /\ ret.id \in returned
    /\ \E p \in Callers : call[p].op = "close" /\ call[p].id = ret.id

\* C32: no write_to_session does its write_all/flush on a session once a
\* close_session of that session has returned, whenever it did its lookup.
C32_NoWriteAfterClose ==
    [][ (ret'.op = "write" /\ ret'.io) => closed[ret'.id] = "no" ]_vars

\* C32, amended: a write_to_session that does its write_all/flush on a
\* session after a close_session of it has returned is one that started, and
\* did its lookup, before that close_session returned; one that starts
\* afterwards writes nothing.
C32_OnlyEarlierLookupWritesAfterClose ==
    [][ (ret'.op = "write" /\ ret'.io /\ closed[ret'.id] # "no")
           => ~ret'.afterClose ]_vars

\* A write_to_session that had looked its session up before the removal has
\* done its I/O after the close_session that found the session returned.
C32_Witness ==
    /\ ret.op = "write" /\ ret.io /\ ~ret.afterClose
    /\ closed[ret.id] = "joined"

\* Threads: caller p is p, the reader of slot k is -k.
Threads == Callers \cup {-k : k \in Slots}

\* The thread that holds the lock of the session in slot k, 0 when it is free.
SessionLockHolder(k) == IF sessLock[k] = -1 THEN -k ELSE sessLock[k]

\* The thread t is blocked on: the holder of the session lock or of the
\* Registry lock it is about to take, or the reader it joins; 0 when t is not
\* waiting for a lock or a join (running, or inside a read or child.wait()).
WaitsFor(t) ==
    IF t \in Callers
    THEN CASE call[t].pc \in {"lock", "io", "sess", "signal", "kill"}
                 /\ sessLock[call[t].k] # t -> SessionLockHolder(call[t].k)
           [] call[t].pc = "insert" -> regLock
           [] call[t].pc = "join" /\ call[t].handle /\ rpc[call[t].k] # "done"
                 -> -call[t].k
           [] OTHER -> 0
    ELSE CASE rpc[-t] = "lock" -> SessionLockHolder(-t)
           [] rpc[-t] = "remove" -> regLock
           [] OTHER -> 0

\* The thread reached from t by n steps of WaitsFor, 0 when the chain ends.
RECURSIVE WaitChain(_, _)
WaitChain(t, n) ==
    IF n = 0 \/ t = 0 THEN t ELSE WaitChain(WaitsFor(t), n - 1)

\* Thread t holds the lock of some session.
HoldsSessionLock(t) == \E k \in Slots : SessionLockHolder(k) = t

\* C33: no thread waits for the Registry lock while it holds a session lock;
\* a close_session that joins the reader holds neither the Registry lock nor
\* a session lock; and the waits for the Registry lock, the session locks and
\* the join never form a cycle.
C33_NoWaitCycle ==
    /\ \A t \in Threads :
          (WaitsFor(t) # 0 /\ (IF t \in Callers THEN call[t].pc = "insert"
                                               ELSE rpc[-t] = "remove"))
             => ~HoldsSessionLock(t)
    /\ \A p \in Callers :
          call[p].pc = "join" => (regLock # p /\ ~HoldsSessionLock(p))
    /\ \A t \in Threads :
          \A n \in 1..Cardinality(Threads) : WaitChain(t, n) # t

\* A close_session waits in its join for a reader that waits for its session
\* lock, which another caller holds.
C33_Witness ==
    \E p \in Callers :
       /\ call[p].pc = "join"
       /\ WaitsFor(p) \in {-k : k \in Slots}
       /\ WaitsFor(WaitsFor(p)) \in Callers

\* C34: every read that returned bytes emits one pty-output in its
\* iteration, whether the decoded text is empty or not, and the loop goes on;
\* leaving the loop on a zero-length read or on a read error emits none and
\* decodes nothing.
C34_OneOutputPerDataRead ==
    /\ [][ input' # input
              => (outputEvents' = 1 /\ loopExit' = "no") ]_vars
    /\ [][ loopExit' # loopExit
              => (outputEvents' = 0 /\ UNCHANGED <<emitted, input, utf8_buffer>>) ]_vars

\* Five bytes were read, the last of them in a chunk that was dropped with
\* the bytes held over: that read emitted its pty-output, with empty text as
\* every one before it.
C34_Witness ==
    /\ Len(input) = 5 /\ emitted = <<>> /\ utf8_buffer = <<>>
    /\ outputEvents = 1 /\ loopExit = "no"

\* The directories the inherited PATH lists, none when PATH is unset.
InheritedDirs ==
    IF process_env["PATH"] = <<>> THEN <<>> ELSE Split(process_env["PATH"][1])

\* C35: the PATH of the shell lists $HOME/bin and $HOME/.local/bin when HOME
\* is set and not empty, and neither otherwise; then the common system paths;
\* then the directories of the inherited PATH when there is one; and the
\* environment of the process stays as it was.
C35_PathOrder ==
    /\ [](cmd # <<>>
            => Split(cmd[1].env.PATH[1])
                  = (IF process_env["HOME"] # <<>> /\ process_env["HOME"][1] # ""
                     THEN <<process_env["HOME"][1] \o "/bin",
                            process_env["HOME"][1] \o "/.local/bin">>
                     ELSE <<>>)
                    \o CommonPaths \o InheritedDirs)
    /\ [][process_env' = process_env]_vars

\* C35, amended: the home directory is HOME, or "/" when HOME is unset; the
\* PATH of the shell lists home/bin and home/.local/bin when home is not
\* empty, then the common system paths, then the directories of the
\* inherited PATH when there is one; the environment of the process stays as
\* it was.
C35_PathOrderWithHomeFallback ==
    /\ [](cmd # <<>>
            => LET home == IF process_env["HOME"] = <<>> THEN "/"
                           ELSE process_env["HOME"][1]
               IN Split(cmd[1].env.PATH[1])
                     = (IF home = "" THEN <<>>
                        ELSE <<home \o "/bin", home \o "/.local/bin">>)
                       \o CommonPaths \o InheritedDirs)
    /\ [][process_env' = process_env]_vars

\* With HOME unset and a PATH of two directories inherited, the command is
\* built: its PATH starts with //bin and ends with the two directories.
C35_Witness ==
    /\ cmd # <<>>
    /\ process_env["HOME"] = <<>>
    /\ Len(InheritedDirs) = 2
    /\ Split(cmd[1].env.PATH[1])[1] = "//bin"
    /\ Len(Split(cmd[1].env.PATH[1])) = 12

\* C36: the font_size of the settings is within [10, 24] in every state;
\* an update or set_font_size given a size below 10 stores 10, given one
\* above 24 stores 24, and given one in between stores it as it is; and a
\* load does the same to the size found in the file, and takes 13 when the
\* file gives none.
C36_FontSizeInRange ==
    /\ [](settings.font_size \in 10..24)
    /\ [](settings_arg # <<>>
            => settings.font_size =
                  (IF settings_arg[1] < 10 THEN 10
                   ELSE IF settings_arg[1] > 24 THEN 24 ELSE settings_arg[1]))
    /\ [][ (settings_arg' = <<>> /\ settings'.font_size # settings.font_size)
              => IF /\ settings_file.kind = "json" /\ settings_file.font_size # <<>>
                    /\ settings_file.font_size[1] \in 0..255
                 THEN /\ settings_file.font_size[1] < 10 => settings'.font_size = 10
                      /\ settings_file.font_size[1] > 24 => settings'.font_size = 24
                      /\ settings_file.font_size[1] \in 10..24
                            => settings'.font_size = settings_file.font_size[1]
                 ELSE settings'.font_size = 13 ]_vars

\* An update was given a font size of 255 and the settings hold 24, after a
\* manager was made over a file with a font size of 5.
C36_Witness ==
    /\ settings_arg = <<255>> /\ settings.font_size = 24
    /\ settings_file.kind = "json" /\ settings_file.font_size = <<5>>

\* C37 as stated: get_config(s) returns the configuration of the latest
\* set_config(s) that no clear of s followed, and nothing when there is no
\* such set_config; clear_config returns true exactly when the screen had a
\* configuration; get_or_create_config on a screen without one returns 95 %
\* of the available size with no position and is_new = true, and stores
\* nothing.
C37_LastWriteWins ==
    /\ [](screenRet.op = "get_config" => screenRet.value = lastSet[screenRet.screen])
    /\ [][ /\ screenRet'.op = "clear_config"
              => screenRet'.flag = (configs[screenRet'.screen] # <<>>)
           /\ (screenRet'.op = "get_or_create_config" /\ configs[screenRet'.screen] = <<>>)
              => /\ screenRet'.flag
                 /\ screenRet'.value =
                      << [width |-> (screenRet'.arg[1] * 95) \div 100,
                          height |-> (screenRet'.arg[2] * 95) \div 100,
                          x |-> <<>>, y |-> <<>>] >>
                 /\ configs' = configs /\ config_file' = config_file ]_vars

\* C37: get_config(s) returns the configuration of the latest set_config(s)
\* that no clear of s followed; when no set_config or clear of s has been
\* made since the manager was constructed, the configuration its file held for
\* s; and nothing otherwise. clear_config returns true exactly when the screen
\* had a configuration; get_or_create_config on a screen without one returns
\* the default with is_new = true and stores nothing.
C37_LastWriteWinsOverLoaded ==
    /\ [](screenRet.op = "get_config"
            => screenRet.value =
                  (IF lastSet[screenRet.screen] # <<>>
                   THEN lastSet[screenRet.screen]
                   ELSE loadedConfigs[screenRet.screen]))
    /\ [][ /\ screenRet'.op = "clear_config"
              => screenRet'.flag = (configs[screenRet'.screen] # <<>>)
           /\ (screenRet'.op = "get_or_create_config" /\ configs[screenRet'.screen] = <<>>)
              => /\ screenRet'.flag
                 /\ screenRet'.value =
                      << [width |-> (screenRet'.arg[1] * 95) \div 100,
                          height |-> (screenRet'.arg[2] * 95) \div 100,
                          x |-> <<>>, y |-> <<>>] >>
                 /\ configs' = configs /\ config_file' = config_file ]_vars

\* A get_config returned the configuration last set for a screen, which is
\* not the one the file holds for it, while the other screen has none.
C37_Witness ==
    /\ screenRet.op = "get_config" /\ screenRet.screen = "display-1"
    /\ screenRet.value # <<>> /\ screenRet.value[1].width = 1200
    /\ config_file.kind = "json" /\ config_file.map["display-1"] # <<>>
    /\ config_file.map["display-1"][1].width = 800
    /\ loadedConfigs["1920x1080"] = <<>> /\ configs["1920x1080"] = <<>>
    /\ lastSet["display-1"] # <<>>

====
